---- MODULE Spec2Model ----
(***************************************************************************)
(* Secure_Chat: room identity, the room cipher, the in-memory message      *)
(* store, the socket relay, the ChatWindow reconciler and the typing       *)
(* indicator.  Strings are sequences of UTF-16 code units, buffers are     *)
(* sequences of bytes.                                                     *)
(***************************************************************************)
EXTENDS Integers, Sequences, FiniteSets, TLC

VARIABLES
    \* --- room identity (getRoomId called on drawn inputs)
    ru1, ru2, rres, rpc,
    \* --- room cipher (encryptForRoom / decryptFromRoom on drawn inputs)
    cmsg, cme, cother, cenv, cdecAs, cout, cpc,
    \* --- message store (server): chatRooms map, uuid source, and the clock
    \* new Date() reads (it advances with every append)
    chatRooms, nextId, clock,
    \* --- last direct call of a message-store function and what it returned
    sret,
    \* --- browser clients (ChatLayout + ChatWindow + socket-client), per client
    connected,      \* socket.connected
    selected,       \* selectedUser.id, <<>> while no conversation is selected
    messages,       \* ChatWindow's messages state
    pending,        \* messages whose decryptMessage promise is unresolved
    isLoading,      \* ChatWindow's isLoading state
    nSelects,       \* conversations selected so far
    \* --- network
    http,           \* REST requests and responses in flight
    sockOut,        \* per client: events emitted, not yet handled by server.js
    sockIn,         \* per client: events the server emitted, not yet handled
    \* --- server.js and the relay
    members,        \* socket.io room -> sockets joined
    socketUserId,   \* socket.userId
    onlineUsers,    \* the onlineUsers Map
    relayLog,       \* events handed to pusher.trigger
    live,           \* sockets whose connection the server holds open
    roomLog,        \* per socket: the join-room, leave-room and disconnect
                    \* events handled, in order
    \* --- history
    serverSawPlaintext,  \* a server handler was handed a payload with plaintext
    broadcasts,          \* io.to(roomId).emit('new-message') calls made: the
                         \* message, the room, the socket whose event was
                         \* handled and the sockets joined to the room
    arrivals,            \* per client and message id: copies received, up to 2
    heard,               \* per client: ids of the new-message events its
                         \* socket dispatched, in order
    \* --- ChatWindow composer and typing indicator, per client
    newMessage,     \* ChatWindow's newMessage state (the input's text)
    isTyping,       \* ChatWindow's isTyping state
    typingTimeout,  \* typingTimeoutRef.current: id of the last timeout set, 0 for null
    timers,         \* setTimeout callbacks not yet run or cleared: id, ticks
                    \* left, and the roomId the callback closed over
    sinceKey,       \* ticks since the last change of the input, up to the timeout
    emitted,        \* typing / stop-typing events the socket has emitted
    nKeys,          \* input changes so far
    typingUser,     \* ChatWindow's typingUser state, "" for null
    shownTicks,     \* ticks since typingUser was last set, up to the timeout + 1
    users,          \* database.json: the email of each user record, in order
    demoUsersInitialized,   \* the flag of the user store
    ucall           \* per caller: its createUser call and where it stands

roomVars   == <<ru1, ru2, rres, rpc>>
cryptoVars == <<cmsg, cme, cother, cenv, cdecAs, cout, cpc>>
storeVars  == <<chatRooms, nextId, clock>>
clientVars == <<connected, selected, messages, pending, isLoading, nSelects>>
netVars    == <<http, sockOut, sockIn>>
serverVars == <<members, socketUserId, onlineUsers, relayLog, live, roomLog>>
histVars   == <<serverSawPlaintext, broadcasts, arrivals, heard>>
typVars    == <<newMessage, isTyping, typingTimeout, timers, sinceKey, emitted, nKeys,
                typingUser, shownTicks>>
chatVars   == <<clientVars, netVars, serverVars, histVars, typVars>>
userVars   == <<users, demoUsersInitialized, ucall>>
vars == <<roomVars, cryptoVars, storeVars, sret, chatVars, userVars>>

(***************************************************************************)
(* Bounds                                                                  *)
(***************************************************************************)
MaxIdLen == 2        \* longest user id drawn for getRoomId
MaxTextLen == 2      \* longest plaintext (in code units) drawn for the cipher
MaxStored == 3       \* messages appended in a run of the message-store calls
MaxSends == 1        \* messages sent in a run of the chat system
MaxSelects == 2      \* conversations selected in a run of the chat system
MaxKeys == 2         \* changes of the message input in a run
MaxOrdered == 2      \* messages sent in a run of two users in one conversation

(***************************************************************************)
(* Generic helpers                                                         *)
(***************************************************************************)
SeqsUpTo(S, n) == UNION {[1..k -> S] : k \in 0..n}

RECURSIVE SumSeq(_)
SumSeq(s) == IF s = <<>> THEN 0 ELSE Head(s) + SumSeq(Tail(s))

Min2(a, b) == IF a < b THEN a ELSE b
Max2(a, b) == IF a > b THEN a ELSE b

\* b[i] of a buffer zero-padded to any length
ByteAt(b, i) == IF i <= Len(b) THEN b[i] ELSE 0

(***************************************************************************)
(* Strings: JavaScript compares strings by UTF-16 code unit                *)
(***************************************************************************)
RECURSIVE StrLess(_, _)
StrLess(a, b) ==
    IF b = <<>> THEN FALSE
    ELSE IF a = <<>> THEN TRUE
    ELSE IF Head(a) < Head(b) THEN TRUE
    ELSE IF Head(a) > Head(b) THEN FALSE
    ELSE StrLess(Tail(a), Tail(b))

\* [x, y].sort() with the default comparator
SortPair(x, y) == IF StrLess(y, x) THEN <<y, x>> ELSE <<x, y>>

UNDERSCORE == <<95>>
ROOM_PREFIX == <<114, 111, 111, 109, 95>>      \* "room_"

\* crypto.ts getRoomId, written without the sort (argument order kept)
getRoomId_unsorted(userId1, userId2) ==
    ROOM_PREFIX \o userId1 \o UNDERSCORE \o userId2

\* crypto.ts getRoomId
getRoomId(userId1, userId2) ==
    LET sorted == SortPair(userId1, userId2)
    IN  ROOM_PREFIX \o sorted[1] \o UNDERSCORE \o sorted[2]

\* messages store getRoomId
storeGetRoomId(userId1, userId2) ==
    LET sorted == SortPair(userId1, userId2)
    IN  ROOM_PREFIX \o sorted[1] \o UNDERSCORE \o sorted[2]

\* ChatWindow getRoomId: [a, b].sort().join('_')
windowGetRoomId(currentUserId, selectedUserId) ==
    LET sorted == SortPair(currentUserId, selectedUserId)
    IN  sorted[1] \o UNDERSCORE \o sorted[2]

(***************************************************************************)
(* TextEncoder / TextDecoder (UTF-8)                                       *)
(***************************************************************************)
IsHighSurrogate(c) == c >= 55296 /\ c <= 56319      \* D800..DBFF
IsLowSurrogate(c)  == c >= 56320 /\ c <= 57343      \* DC00..DFFF
IsSurrogate(c)     == c >= 55296 /\ c <= 57343
REPLACEMENT == 65533                                 \* U+FFFD
BOM == 65279                                         \* U+FEFF

EncodeCodePoint(cp) ==
    IF cp < 128 THEN <<cp>>
    ELSE IF cp < 2048 THEN <<192 + (cp \div 64), 128 + (cp % 64)>>
    ELSE IF cp < 65536 THEN
        <<224 + (cp \div 4096), 128 + ((cp \div 64) % 64), 128 + (cp % 64)>>
    ELSE <<240 + (cp \div 262144), 128 + ((cp \div 4096) % 64),
           128 + ((cp \div 64) % 64), 128 + (cp % 64)>>

\* stringToArrayBuffer: new TextEncoder().encode(str)
RECURSIVE stringToArrayBuffer(_)
stringToArrayBuffer(str) ==
    IF str = <<>> THEN <<>>
    ELSE LET c == Head(str) IN
         IF IsHighSurrogate(c) /\ Len(str) >= 2 /\ IsLowSurrogate(str[2])
         THEN EncodeCodePoint(65536 + (c - 55296) * 1024 + (str[2] - 56320))
                 \o stringToArrayBuffer(Tail(Tail(str)))
         ELSE IF IsSurrogate(c)
         THEN EncodeCodePoint(REPLACEMENT) \o stringToArrayBuffer(Tail(str))
         ELSE EncodeCodePoint(c) \o stringToArrayBuffer(Tail(str))

IsCont(b) == b >= 128 /\ b <= 191

CodePointToUnits(cp) ==
    IF cp < 65536 THEN <<cp>>
    ELSE <<55296 + ((cp - 65536) \div 1024), 56320 + ((cp - 65536) % 1024)>>

\* UTF-8 decoding; an ill-formed byte decodes to U+FFFD
RECURSIVE Utf8Decode(_)
Utf8Decode(b) ==
    IF b = <<>> THEN <<>>
    ELSE LET b1 == Head(b)
             n  == Len(b)
         IN
         IF b1 < 128 THEN <<b1>> \o Utf8Decode(Tail(b))
         ELSE IF b1 >= 194 /\ b1 <= 223 /\ n >= 2 /\ IsCont(b[2])
         THEN <<(b1 - 192) * 64 + (b[2] - 128)>> \o Utf8Decode(SubSeq(b, 3, n))
         ELSE IF b1 >= 224 /\ b1 <= 239 /\ n >= 3 /\ IsCont(b[2]) /\ IsCont(b[3])
                 /\ (b1 = 224 => b[2] >= 160) /\ (b1 = 237 => b[2] <= 159)
         THEN <<(b1 - 224) * 4096 + (b[2] - 128) * 64 + (b[3] - 128)>>
                 \o Utf8Decode(SubSeq(b, 4, n))
         ELSE IF b1 >= 240 /\ b1 <= 244 /\ n >= 4
                 /\ IsCont(b[2]) /\ IsCont(b[3]) /\ IsCont(b[4])
                 /\ (b1 = 240 => b[2] >= 144) /\ (b1 = 244 => b[2] <= 143)
         THEN CodePointToUnits((b1 - 240) * 262144 + (b[2] - 128) * 4096
                                 + (b[3] - 128) * 64 + (b[4] - 128))
                 \o Utf8Decode(SubSeq(b, 5, n))
         ELSE <<REPLACEMENT>> \o Utf8Decode(Tail(b))

\* new TextDecoder().decode(buffer): UTF-8, a leading byte order mark is dropped
TextDecode(b) ==
    LET u == Utf8Decode(b)
    IN  IF u # <<>> /\ u[1] = BOM THEN Tail(u) ELSE u

(***************************************************************************)
(* base64 (btoa / atob); a character is its index 0..63, PAD is '='        *)
(***************************************************************************)
PAD == 64

RECURSIVE arrayBufferToBase64(_)
arrayBufferToBase64(b) ==
    IF b = <<>> THEN <<>>
    ELSE IF Len(b) = 1 THEN <<b[1] \div 4, (b[1] % 4) * 16, PAD, PAD>>
    ELSE IF Len(b) = 2 THEN
        <<b[1] \div 4, (b[1] % 4) * 16 + (b[2] \div 16), (b[2] % 16) * 4, PAD>>
    ELSE <<b[1] \div 4, (b[1] % 4) * 16 + (b[2] \div 16),
           (b[2] % 16) * 4 + (b[3] \div 64), b[3] % 64>>
            \o arrayBufferToBase64(SubSeq(b, 4, Len(b)))

\* atob drops up to two trailing '=' when the length is a multiple of 4
StripPad(s) ==
    LET n == Len(s) IN
    IF n % 4 = 0 /\ n >= 2 /\ s[n] = PAD /\ s[n - 1] = PAD THEN SubSeq(s, 1, n - 2)
    ELSE IF n % 4 = 0 /\ n >= 1 /\ s[n] = PAD THEN SubSeq(s, 1, n - 1)
    ELSE s

RECURSIVE DecodeSextets(_)
DecodeSextets(s) ==
    IF Len(s) < 2 THEN <<>>
    ELSE IF Len(s) = 2 THEN <<s[1] * 4 + (s[2] \div 16)>>
    ELSE IF Len(s) = 3 THEN
        <<s[1] * 4 + (s[2] \div 16), (s[2] % 16) * 16 + (s[3] \div 4)>>
    ELSE <<s[1] * 4 + (s[2] \div 16), (s[2] % 16) * 16 + (s[3] \div 4),
           (s[3] % 4) * 64 + s[4]>>
            \o DecodeSextets(SubSeq(s, 5, Len(s)))

\* base64ToArrayBuffer: atob throws on a malformed string
base64ToArrayBuffer(base64) ==
    LET s == StripPad(base64) IN
    IF Len(s) % 4 = 1 \/ (\E i \in 1..Len(s) : s[i] = PAD)
    THEN [ok |-> FALSE, val |-> <<>>]
    ELSE [ok |-> TRUE, val |-> DecodeSextets(s)]

(***************************************************************************)
(* Web Crypto.  PBKDF2 and AES-GCM are library code; they are stood in for *)
(* by byte-level functions with the properties the library guarantees:     *)
(* the derived key is a function of password, salt and iteration count     *)
(* that differs for different passwords, and AES-GCM decryption returns    *)
(* the plaintext exactly when key, iv, ciphertext and tag are the ones     *)
(* encryption produced, failing otherwise.                                 *)
(***************************************************************************)
KEY_BYTES == 32          \* { name: 'AES-GCM', length: 256 }
IV_BYTES == 12
TAG_BYTES == 16
ITERATIONS == 100000
\* 'secure-chat-salt-v1'
SALT == <<115, 101, 99, 117, 114, 101, 45, 99, 104, 97, 116, 45, 115, 97, 108,
          116, 45, 118, 49>>

Pbkdf2(password, salt, iterations) ==
    [i \in 1..KEY_BYTES |->
        (ByteAt(password, i) * 3 + ByteAt(salt, i) + iterations) % 256]

\* a key derivation that ignores the room (one key for the whole application)
deriveKeyFromRoom_fixed(roomId) ==
    Pbkdf2(<<>>, stringToArrayBuffer(SALT), ITERATIONS)

\* crypto.ts deriveKeyFromRoom
deriveKeyFromRoom(roomId) ==
    Pbkdf2(stringToArrayBuffer(roomId), stringToArrayBuffer(SALT), ITERATIONS)

GcmStream(key, iv, i) == key[((i - 1) % KEY_BYTES) + 1] + iv[((i - 1) % IV_BYTES) + 1]

GcmTag(key, iv, ct) ==
    [j \in 1..TAG_BYTES |->
        (key[j] + key[TAG_BYTES + j] + iv[((j - 1) % IV_BYTES) + 1]
            + SumSeq(ct) + Len(ct)) % 256]

\* crypto.subtle.encrypt({name:'AES-GCM', iv}, key, data): ciphertext || tag
AesGcmEncrypt(key, iv, data) ==
    LET ct == [i \in 1..Len(data) |-> (data[i] + GcmStream(key, iv, i)) % 256]
    IN  ct \o GcmTag(key, iv, ct)

\* crypto.subtle.decrypt: rejects (OperationError) unless the tag verifies
AesGcmDecrypt(key, iv, data) ==
    IF Len(iv) # IV_BYTES \/ Len(data) < TAG_BYTES
    THEN [ok |-> FALSE, val |-> <<>>]
    ELSE LET n   == Len(data) - TAG_BYTES
             ct  == SubSeq(data, 1, n)
             tag == SubSeq(data, n + 1, Len(data))
         IN  IF tag # GcmTag(key, iv, ct)
             THEN [ok |-> FALSE, val |-> <<>>]
             ELSE [ok |-> TRUE,
                   val |-> [i \in 1..n |-> (ct[i] - GcmStream(key, iv, i)) % 256]]

\* crypto.getRandomValues(new Uint8Array(12)): the values the model draws
IVS == {[i \in 1..IV_BYTES |-> 0], [i \in 1..IV_BYTES |-> (37 * i) % 256]}

\* Uint8Array.prototype.slice(start, end) with 0 <= start <= end
ByteSlice(b, start, end) ==
    SubSeq(b, Min2(start, Len(b)) + 1, Min2(end, Len(b)))

\* crypto.ts encryptForRoom, iv being the random value drawn
encryptForRoom(message, myUserId, otherUserId, iv) ==
    LET roomId == getRoomId(myUserId, otherUserId)
        key == deriveKeyFromRoom(roomId)
        messageBuffer == stringToArrayBuffer(message)
        encrypted == AesGcmEncrypt(key, iv, messageBuffer)
        combined == iv \o encrypted
    IN  arrayBufferToBase64(combined)

\* crypto.ts decryptFromRoom; ok = FALSE is the rejected promise
decryptFromRoom(encryptedData, myUserId, otherUserId) ==
    LET roomId == getRoomId(myUserId, otherUserId)
        key == deriveKeyFromRoom(roomId)
        combinedBuffer == base64ToArrayBuffer(encryptedData)
    IN  IF ~combinedBuffer.ok THEN [ok |-> FALSE, val |-> <<>>]
        ELSE LET combined == combinedBuffer.val
                 iv == ByteSlice(combined, 0, IV_BYTES)
                 encrypted == ByteSlice(combined, IV_BYTES, Len(combined))
                 decrypted == AesGcmDecrypt(key, iv, encrypted)
             IN  IF ~decrypted.ok THEN [ok |-> FALSE, val |-> <<>>]
                 ELSE [ok |-> TRUE, val |-> TextDecode(decrypted.val)]

(***************************************************************************)
(* Users                                                                   *)
(***************************************************************************)
ALICE == <<97, 49>>      \* "a1"
BOB   == <<98, 50>>      \* "b2"
CAROL == <<99, 51>>      \* "c3"
UserIds == {ALICE, BOB, CAROL}

NoResult == [ok |-> FALSE, val |-> <<>>]

(***************************************************************************)
(* Room identity on drawn inputs.  A user id reaches getRoomId from the    *)
(* session, from the otherUserId query parameter or from the receiverId    *)
(* body field, so any non-empty string is an input.                        *)
(***************************************************************************)
IdChars == {45, 95, 97}                     \* '-', '_', 'a'
IdStrings == SeqsUpTo(IdChars, MaxIdLen) \ {<<>>}

(***************************************************************************)
(* User store: createUser, initializeDemoUsers over database.json          *)
(***************************************************************************)
ALICE_EMAIL == "alice@example.com"
NEW_EMAIL == "dave@example.com"

demoUsers == <<ALICE_EMAIL, "bob@example.com", "charlie@example.com">>
Emails == {ALICE_EMAIL, NEW_EMAIL}

\* the requests that call createUser, each running as its own async call
Callers == {"p1", "p2"}

\* pc: "idle" not called yet, "demoHash" at `await hash` of
\* initializeDemoUsers for demoUsers[i], "check" resumed from
\* `await initializeDemoUsers()`, "hash" at `await hash` of createUser,
\* "done" returned, "failed" thrown
NoUserCall == [pc |-> "idle", email |-> "", i |-> 0]

UsersIdle ==
    /\ users = <<>>
    /\ demoUsersInitialized = FALSE
    /\ ucall = [p \in Callers |-> NoUserCall]

\* database.ts findUserByEmail
findUserByEmail(db, email) == \E k \in 1..Len(db) : db[k] = email

\* database.ts addUser: db.users.push(user); saveDatabase(db)
addUser(db, email) == Append(db, email)

\* the loop of initializeDemoUsers from demoUsers[i] on, run until it reaches
\* an `await hash`: the index of that demo user, or 0 when the loop ends
DemoLoop(db, i) ==
    LET missing == {k \in i..Len(demoUsers) : ~findUserByEmail(db, demoUsers[k])}
    IN  IF missing = {} THEN 0 ELSE CHOOSE k \in missing : \A l \in missing : k <= l

\* createUser(email, ...) is called and runs up to its first await: inside
\* initializeDemoUsers when the flag is not set, else at the await of its
\* return
StartCreateUser(p, email) ==
    /\ ucall[p].pc = "idle"
    /\ IF demoUsersInitialized
       THEN /\ ucall' = [ucall EXCEPT ![p] = [pc |-> "check", email |-> email, i |-> 0]]
            /\ UNCHANGED demoUsersInitialized
       ELSE LET k == DemoLoop(users, 1) IN
            /\ ucall' = [ucall EXCEPT ![p] =
                            [pc |-> IF k = 0 THEN "check" ELSE "demoHash",
                             email |-> email, i |-> k]]
            /\ demoUsersInitialized' = (k = 0)
    /\ UNCHANGED users

\* initializeDemoUsers resumed after `await hash`: addUser of the demo user,
\* then the loop goes on to its next await or to `demoUsersInitialized = true`
DemoResume(p) ==
    /\ ucall[p].pc = "demoHash"
    /\ LET db == addUser(users, demoUsers[ucall[p].i])
           k == DemoLoop(db, ucall[p].i + 1)
       IN  /\ users' = db
           /\ ucall' = [ucall EXCEPT ![p].pc = IF k = 0 THEN "check" ELSE "demoHash",
                                     ![p].i = k]
           /\ demoUsersInitialized' = (demoUsersInitialized \/ k = 0)

\* createUser resumed after `await initializeDemoUsers()`: the existence
\* check, then the throw or the start of `await hash`
CreateUserCheck(p) ==
    /\ ucall[p].pc = "check"
    /\ ucall' = [ucall EXCEPT ![p].pc =
                    IF findUserByEmail(users, ucall[p].email) THEN "failed" ELSE "hash"]
    /\ UNCHANGED <<users, demoUsersInitialized>>

\* createUser resumed after `await hash`: addUser(record) and the return
CreateUserAdd(p) ==
    /\ ucall[p].pc = "hash"
    /\ users' = addUser(users, ucall[p].email)
    /\ ucall' = [ucall EXCEPT ![p].pc = "done"]
    /\ UNCHANGED demoUsersInitialized

NoRoomIds == [crypto12 |-> <<>>, crypto21 |-> <<>>, store12 |-> <<>>,
              store21 |-> <<>>, window12 |-> <<>>, window21 |-> <<>>]

RoomIdle ==
    /\ ru1 = <<>>
    /\ ru2 = <<>>
    /\ rres = NoRoomIds
    /\ rpc = "idle"

\* both argument orders through each of the three getRoomId functions
CallGetRoomId ==
    /\ rpc = "call"
    /\ rres' = [crypto12 |-> getRoomId(ru1, ru2),
                crypto21 |-> getRoomId(ru2, ru1),
                store12  |-> storeGetRoomId(ru1, ru2),
                store21  |-> storeGetRoomId(ru2, ru1),
                window12 |-> windowGetRoomId(ru1, ru2),
                window21 |-> windowGetRoomId(ru2, ru1)]
    /\ rpc' = "done"
    /\ UNCHANGED <<ru1, ru2>>

NextPair ==
    /\ rpc = "done"
    /\ ru1' \in IdStrings
    /\ ru2' \in IdStrings
    /\ rres' = NoRoomIds
    /\ rpc' = "call"

(***************************************************************************)
(* The room cipher on drawn inputs                                         *)
(***************************************************************************)
\* 'A', e-acute, euro sign, U+FEFF, a high surrogate, a low surrogate
TextUnits == {65, 233, 8364, 65279, 55357, 56832}
Plaintexts == SeqsUpTo(TextUnits, MaxTextLen)

CryptoIdle ==
    /\ cmsg = <<>>
    /\ cme = <<>>
    /\ cother = <<>>
    /\ cenv = <<>>
    /\ cdecAs = <<>>
    /\ cout = NoResult
    /\ cpc = "idle"

CallEncryptForRoom ==
    /\ cpc = "encrypt"
    /\ \E iv \in IVS : cenv' = encryptForRoom(cmsg, cme, cother, iv)
    /\ cpc' = "decrypt"
    /\ UNCHANGED <<cmsg, cme, cother, cdecAs, cout>>

CallDecryptFromRoom ==
    /\ cpc = "decrypt"
    /\ \E my \in UserIds, other \in UserIds :
        /\ cdecAs' = <<my, other>>
        /\ cout' = decryptFromRoom(cenv, my, other)
    /\ cpc' = "done"
    /\ UNCHANGED <<cmsg, cme, cother, cenv>>

(***************************************************************************)
(* Message store (lib/messages): chatRooms is the module's Map             *)
(***************************************************************************)
UserName(u) == IF u = ALICE THEN "Alice" ELSE IF u = BOB THEN "Bob" ELSE "Charlie"

DEFAULT_LIMIT == 50

\* Array.prototype.slice(start): a negative start counts from the end, and
\* slice(-0) is slice(0)
JsSliceFrom(arr, start) ==
    LET n == Len(arr)
        from == IF start < 0 THEN Max2(n + start, 0) ELSE Min2(start, n)
    IN  SubSeq(arr, from + 1, n)

\* getOrCreateRoom: the Map after the call (the room returned is the entry
\* for storeGetRoomId(userId1, userId2)).  createdAt, which nothing reads,
\* is left out of the room record.
getOrCreateRoom(rooms, userId1, userId2) ==
    LET roomId == storeGetRoomId(userId1, userId2) IN
    IF roomId \in DOMAIN rooms THEN rooms
    ELSE [r \in DOMAIN rooms \cup {roomId} |->
            IF r = roomId
            THEN [id |-> roomId, participants |-> <<userId1, userId2>>,
                  messages |-> <<>>]
            ELSE rooms[r]]

NewMessage(id, senderId, senderName, receiverId, encryptedContent, now) ==
    [id |-> id, senderId |-> senderId, senderName |-> senderName,
     receiverId |-> receiverId, encryptedContent |-> encryptedContent,
     timestamp |-> now, isRead |-> FALSE]

\* an addMessage that never throws
addMessageThrows_never(rooms, roomId) == FALSE

\* addMessage: `if (!room) throw new Error('Chat room not found')`
addMessageThrows(rooms, roomId) == roomId \notin DOMAIN rooms

\* an addMessage that inserts at the front
addMessage_unshift(rooms, roomId, message) ==
    [rooms EXCEPT ![roomId].messages = <<message>> \o @]

\* addMessage on an existing room: room.messages.push(message)
addMessage(rooms, roomId, message) ==
    [rooms EXCEPT ![roomId].messages = Append(@, message)]

\* getMessages(roomId, limit): room.messages.slice(-limit)
getMessages(rooms, roomId, limit) ==
    IF roomId \notin DOMAIN rooms THEN <<>>
    ELSE JsSliceFrom(rooms[roomId].messages, 0 - limit)

\* a markMessagesAsRead that tests the sender instead of the receiver
markMessagesAsRead_sender(rooms, roomId, userId) ==
    IF roomId \notin DOMAIN rooms THEN rooms
    ELSE [rooms EXCEPT ![roomId].messages =
            [i \in 1..Len(@) |->
                IF @[i].senderId = userId /\ ~@[i].isRead
                THEN [@[i] EXCEPT !.isRead = TRUE] ELSE @[i]]]

\* a markMessagesAsRead that flips every message of the room
markMessagesAsRead_all(rooms, roomId, userId) ==
    IF roomId \notin DOMAIN rooms THEN rooms
    ELSE [rooms EXCEPT ![roomId].messages =
            [i \in 1..Len(@) |-> [@[i] EXCEPT !.isRead = TRUE]]]

\* markMessagesAsRead(roomId, userId)
\* a markMessagesAsRead that makes the room it does not find
markMessagesAsRead_creates(rooms, roomId, userId) ==
    IF roomId \notin DOMAIN rooms
    THEN [r \in DOMAIN rooms \cup {roomId} |->
            IF r = roomId
            THEN [id |-> roomId, participants |-> <<userId, userId>>,
                  messages |-> <<>>]
            ELSE rooms[r]]
    ELSE rooms

markMessagesAsRead(rooms, roomId, userId) ==
    IF roomId \notin DOMAIN rooms THEN rooms
    ELSE [rooms EXCEPT ![roomId].messages =
            [i \in 1..Len(@) |->
                IF @[i].receiverId = userId /\ ~@[i].isRead
                THEN [@[i] EXCEPT !.isRead = TRUE] ELSE @[i]]]

\* getUnreadCount(roomId, userId)
getUnreadCount(rooms, roomId, userId) ==
    IF roomId \notin DOMAIN rooms THEN 0
    ELSE Cardinality({i \in 1..Len(rooms[roomId].messages) :
            /\ rooms[roomId].messages[i].receiverId = userId
            /\ ~rooms[roomId].messages[i].isRead})

EmptyRooms == [r \in {} |-> 0]

StoreInit ==
    /\ chatRooms = EmptyRooms
    /\ nextId = 1
    /\ clock = 0

StoredCount == nextId - 1

(***************************************************************************)
(* Direct calls of the message-store functions, arguments drawn            *)
(***************************************************************************)
StorePairs == {<<ALICE, BOB>>, <<BOB, ALICE>>, <<CAROL, ALICE>>}
StoreUsers == {ALICE, BOB}
StoreRoomIds == {storeGetRoomId(p[1], p[2]) : p \in StorePairs}
StoreLimits == {0, 1, DEFAULT_LIMIT}
ENVELOPE == <<7>>        \* an opaque encryptedContent

NoCall == [op |-> "none", room |-> <<>>, user |-> <<>>, limit |-> 0,
           val |-> <<>>, num |-> 0, threw |-> FALSE, pair |-> <<>>]


\* room and val record the id and the messages of the room returned
CallGetOrCreateRoom(u1, u2) ==
    /\ chatRooms' = getOrCreateRoom(chatRooms, u1, u2)
    /\ UNCHANGED clock
    /\ LET room == chatRooms'[storeGetRoomId(u1, u2)] IN
        sret' = [NoCall EXCEPT !.op = "getOrCreateRoom", !.pair = <<u1, u2>>,
                               !.room = room.id, !.val = room.messages]
    /\ UNCHANGED nextId

\* addMessage(roomId, ...): throws 'Chat room not found' when the room is absent
CallAddMessage(sender, receiver) ==
    LET roomId == storeGetRoomId(sender, receiver) IN
    /\ StoredCount < MaxStored
    /\ IF addMessageThrows(chatRooms, roomId)
       THEN /\ sret' = [NoCall EXCEPT !.op = "addMessage", !.room = roomId,
                                      !.threw = TRUE]
            /\ UNCHANGED storeVars
       ELSE /\ chatRooms' = addMessage(chatRooms, roomId,
                    NewMessage(nextId, sender, UserName(sender), receiver, ENVELOPE, clock))
            /\ clock' = clock + 1
            /\ nextId' = nextId + 1
            /\ sret' = [NoCall EXCEPT !.op = "addMessage", !.room = roomId]

CallGetMessages(roomId, limit) ==
    /\ sret' = [NoCall EXCEPT !.op = "getMessages", !.room = roomId,
                              !.limit = limit,
                              !.val = getMessages(chatRooms, roomId, limit)]
    /\ UNCHANGED storeVars

\* num records the unread count seen before the call
CallMarkMessagesAsRead(roomId, userId) ==
    /\ chatRooms' = markMessagesAsRead(chatRooms, roomId, userId)
    /\ sret' = [NoCall EXCEPT !.op = "markMessagesAsRead", !.room = roomId,
                              !.user = userId,
                              !.num = getUnreadCount(chatRooms, roomId, userId)]
    /\ UNCHANGED <<nextId, clock>>

CallGetUnreadCount(roomId, userId) ==
    /\ sret' = [NoCall EXCEPT !.op = "getUnreadCount", !.room = roomId,
                              !.user = userId,
                              !.num = getUnreadCount(chatRooms, roomId, userId)]
    /\ UNCHANGED storeVars

(***************************************************************************)
(* The chat system: two browser clients, the REST routes, server.js        *)
(***************************************************************************)
Clients == {"c1", "c2"}
\* a socket.io / HTTP peer outside ChatWindow: its socket never emits join, and
\* its HTTP requests carry no session or, with auth, bob's session cookie
ANON == "x"
\* an HTTP peer outside ChatWindow whose requests carry alice's session cookie
ANON_A == "y"
Sockets == Clients \cup {ANON}
ClientUser(c) == IF c \in {"c1", ANON_A} THEN ALICE ELSE BOB      \* session.user.id
NoUser == <<>>

HELLO == <<72, 105>>                                   \* "Hi"
Texts == {HELLO}
ChatIVS == {[i \in 1..IV_BYTES |-> (37 * i) % 256]}

CHAT_PREFIX == <<99, 104, 97, 116, 45>>                \* "chat-"
USER_PREFIX == <<117, 115, 101, 114, 45>>              \* "user-"

\* a Message as ChatWindow holds it: the stored fields plus the optional
\* decryptedContent (<<>> when absent) and decryptionFailed
ClientMessage(m) ==
    [id |-> m.id, senderId |-> m.senderId, senderName |-> m.senderName,
     receiverId |-> m.receiverId, encryptedContent |-> m.encryptedContent,
     timestamp |-> m.timestamp, isRead |-> m.isRead,
     decryptedContent |-> <<>>, decryptionFailed |-> FALSE]

\* ChatWindow decryptMessage for currentUser.id = cur
decryptMessage(cur, msg) ==
    IF msg.decryptedContent # <<>> THEN msg
    ELSE LET otherUserId == IF msg.senderId = cur THEN msg.receiverId
                            ELSE msg.senderId
             res == decryptFromRoom(msg.encryptedContent, cur, otherUserId)
         IN  IF res.ok THEN [msg EXCEPT !.decryptedContent = res.val]
             ELSE [msg EXCEPT !.decryptionFailed = TRUE]

\* a decryptMessages that gives up the batch when one message fails
decryptMessages_allOrNothing(cur, msgs) ==
    IF \E i \in 1..Len(msgs) : decryptMessage(cur, msgs[i]).decryptionFailed
    THEN <<>>
    ELSE [i \in 1..Len(msgs) |-> decryptMessage(cur, msgs[i])]

\* ChatWindow decryptMessages: Promise.all(msgs.map(decryptMessage))
decryptMessages(cur, msgs) ==
    [i \in 1..Len(msgs) |-> decryptMessage(cur, msgs[i])]

HasId(msgs, id) == \E i \in 1..Len(msgs) : msgs[i].id = id
CountId(msgs, id) == Cardinality({i \in 1..Len(msgs) : msgs[i].id = id})

\* typingTimeoutRef.current = null
NoTimeout == 0

\* setTimeout(..., 2000), time being counted in ticks of one second
TYPING_TIMEOUT_MS == 2000
TICK_MS == 1000
TimeoutTicks == TYPING_TIMEOUT_MS \div TICK_MS

\* a clearTimeout that cancels nothing
ClearTimeout_none(pendingTimers, id) == pendingTimers

\* clearTimeout(id) on the pending callbacks
ClearTimeout(pendingTimers, id) == {t \in pendingTimers : t.id # id}

\* String.prototype.trim
IsSpace(u) == u \in {9, 10, 11, 12, 13, 32, 160}

RECURSIVE TrimStart(_)
TrimStart(s) == IF s # <<>> /\ IsSpace(Head(s)) THEN TrimStart(Tail(s)) ELSE s

RECURSIVE TrimEnd(_)
TrimEnd(s) ==
    IF s # <<>> /\ IsSpace(s[Len(s)]) THEN TrimEnd(SubSeq(s, 1, Len(s) - 1)) ELSE s

Trim(s) == TrimEnd(TrimStart(s))

\* auth: getServerSession finds a session with a user id; status: the
\* response's HTTP status
NoRequest == [kind |-> "none", client |-> "c1", other |-> NoUser, stage |-> "req",
              content |-> <<>>, text |-> <<>>, room |-> <<>>, msgs |-> <<>>,
              auth |-> TRUE, status |-> 200]

NoName == ""
RoomEvent(type, roomId) == [type |-> type, roomId |-> roomId]

\* The run starts with client c1 (alice) freshly loaded, and client c2 (bob)
\* connected with his conversation with alice open, its join, join-room and
\* bulk load done while the room was still empty; c2 stays in that
\* conversation.
Roamers == {"c1"}
BOB_ROOM == windowGetRoomId(BOB, ALICE)

ChatInitWith(anonEvents, anonRequests) ==
    /\ connected = [c \in Clients |-> c \notin Roamers]
    /\ selected = [c \in Clients |-> IF c \in Roamers THEN NoUser ELSE ALICE]
    /\ messages = [c \in Clients |-> <<>>]
    /\ pending = [c \in Clients |-> {}]
    /\ isLoading = [c \in Clients |-> FALSE]
    /\ nSelects = 0
    /\ http = anonRequests
    /\ sockOut = [c \in Sockets |-> IF c = ANON THEN anonEvents ELSE <<>>]
    /\ sockIn = [c \in Sockets |-> <<>>]
    /\ members = [r \in {BOB_ROOM} |-> Clients \ Roamers]
    /\ socketUserId = [c \in Sockets |-> IF c \in Clients \ Roamers THEN BOB ELSE NoUser]
    /\ onlineUsers = [u \in {BOB} |-> "c2"]
    /\ relayLog = {}
    /\ live = [c \in Sockets |-> IF c = ANON THEN anonEvents # <<>>
                                 ELSE c \notin Roamers]
    /\ roomLog = [c \in Sockets |-> IF c \in Clients \ Roamers
                                    THEN <<RoomEvent("join-room", BOB_ROOM)>>
                                    ELSE <<>>]
    /\ heard = [c \in Clients |-> <<>>]
    /\ typingUser = [c \in Clients |-> NoName]
    /\ shownTicks = [c \in Clients |-> 0]
    /\ serverSawPlaintext = FALSE
    /\ broadcasts = {}
    /\ arrivals = [c \in Clients |-> [i \in 1..MaxSends |-> 0]]
    /\ newMessage = [c \in Clients |-> <<>>]
    /\ isTyping = [c \in Clients |-> FALSE]
    /\ typingTimeout = [c \in Clients |-> NoTimeout]
    /\ timers = [c \in Clients |-> {}]
    /\ sinceKey = [c \in Clients |-> TimeoutTicks]
    /\ emitted = [c \in Clients |-> <<>>]
    /\ nKeys = 0

ChatInit == ChatInitWith(<<>>, {})

\* s.emit(...) behind the `if (s.connected)` guard of socket-client.ts
Emit(c, event) ==
    IF connected[c] THEN [sockOut EXCEPT ![c] = Append(@, event)] ELSE sockOut

Event(type, roomId, userId, message) ==
    [type |-> type, roomId |-> roomId, userId |-> userId, message |-> message]

NoMessage == ClientMessage(NewMessage(0, NoUser, "", NoUser, <<>>, 0))

Bump(n) == IF n < 2 THEN n + 1 ELSE n

\* the server has handled the disconnect of socket c
Closed(c) == \E i \in 1..Len(roomLog[c]) : roomLog[c][i].type = "disconnect"

\* ChatLayout effect: connectSocket(session.user.id), the connection being
\* established: s.connect(); s.emit('join', userId).  A socket id stands for
\* one connection: it is not opened again once it was open.
ConnectSocket(c) ==
    /\ ~connected[c]
    /\ ~live[c] /\ ~Closed(c)
    /\ connected' = [connected EXCEPT ![c] = TRUE]
    /\ sockOut' = [sockOut EXCEPT ![c] =
                      Append(@, Event("join", <<>>, ClientUser(c), NoMessage))]
    /\ live' = [live EXCEPT ![c] = TRUE]
    /\ UNCHANGED <<selected, messages, pending, isLoading, nSelects, http, sockIn,
                   members, socketUserId, onlineUsers, relayLog, roomLog, histVars,
                   storeVars, typVars>>

\* UserList onSelectUser -> setSelectedUser: ChatWindow re-renders with the new
\* selectedUser; the socket effect is cleaned up (leaveRoom of the old room)
\* and run again (joinRoom of the new room), and the fetch effect issues
\* GET /api/messages?otherUserId=... .  The messages state is not reset.
SelectUser(c, u) ==
    /\ c \in Roamers
    /\ nSelects < MaxSelects
    /\ u # ClientUser(c)
    /\ u # selected[c]
    /\ nSelects' = nSelects + 1
    /\ selected' = [selected EXCEPT ![c] = u]
    /\ LET leave == IF selected[c] # NoUser /\ connected[c]
                    THEN <<Event("leave-room",
                                 windowGetRoomId(ClientUser(c), selected[c]),
                                 NoUser, NoMessage)>>
                    ELSE <<>>
           join == IF connected[c]
                   THEN <<Event("join-room", windowGetRoomId(ClientUser(c), u),
                                NoUser, NoMessage)>>
                   ELSE <<>>
       IN  sockOut' = [sockOut EXCEPT ![c] = @ \o leave \o join]
    /\ http' = http \cup {[NoRequest EXCEPT !.kind = "GET", !.client = c,
                                            !.other = u]}
    /\ UNCHANGED <<connected, messages, pending, isLoading, sockIn, serverVars,
                   histVars, storeVars, typVars>>

UNAUTHORIZED == 401
SERVER_ERROR == 500

\* GET /api/messages: 401 without a session, else the room's messages
ServeGET(req) ==
    /\ req \in http
    /\ req.kind = "GET"
    /\ req.stage = "req"
    /\ IF ~req.auth
       THEN http' = (http \ {req}) \cup
                      {[req EXCEPT !.stage = "resp", !.status = UNAUTHORIZED]}
       ELSE LET roomId == storeGetRoomId(ClientUser(req.client), req.other)
                found == getMessages(chatRooms, roomId, DEFAULT_LIMIT)
            IN  http' = (http \ {req}) \cup
                          {[req EXCEPT !.stage = "resp", !.msgs = found, !.room = roomId]}
    /\ UNCHANGED <<clientVars, sockOut, sockIn, serverVars, histVars, storeVars, typVars>>

ArrivedAll(arr, c, msgs) ==
    [arr EXCEPT ![c] = [i \in DOMAIN @ |-> IF HasId(msgs, i) THEN Bump(@[i]) ELSE @[i]]]

\* fetchMessages continuation: response.json(), decryptMessages, then
\* setMessages(decrypted), whatever conversation is selected by now
FetchApply(req) ==
    /\ req \in http
    /\ req.kind = "GET"
    /\ req.stage = "resp"
    /\ req.client \in Clients
    /\ LET c == req.client
           data == [i \in 1..Len(req.msgs) |-> ClientMessage(req.msgs[i])]
       IN  IF req.status = 200
           THEN /\ messages' = [messages EXCEPT ![c] =
                                    decryptMessages(ClientUser(c), data)]
                /\ arrivals' = ArrivedAll(arrivals, c, data)
           ELSE UNCHANGED <<messages, arrivals>>     \* data.messages is undefined
    /\ http' = http \ {req}
    /\ UNCHANGED <<connected, selected, pending, isLoading, nSelects, sockOut,
                   sockIn, serverVars, serverSawPlaintext, broadcasts, heard,
                   storeVars, typVars>>

\* what emitTyping / emitStopTyping hand to s.emit
TypingEvent(type, roomId, userId) == [type |-> type, roomId |-> roomId, userId |-> userId]

\* emitTyping / emitStopTyping behind the `if (s.connected)` guard
EmitTyping(c, event) ==
    IF connected[c] THEN [emitted EXCEPT ![c] = Append(@, event)] ELSE emitted

\* values the message input is changed to: "H", "Hi", " "
TypedValues == {<<72>>, HELLO, <<32>>}
Typists == Roamers

\* the input's onChange: setNewMessage(e.target.value); handleTyping().
\* The input is disabled while isLoading.
Keystroke(c, value) ==
    /\ selected[c] # NoUser
    /\ ~isLoading[c]
    /\ nKeys < MaxKeys
    /\ value # newMessage[c]
    /\ nKeys' = nKeys + 1
    /\ newMessage' = [newMessage EXCEPT ![c] = value]
    /\ LET roomId == windowGetRoomId(ClientUser(c), selected[c]) IN
        /\ isTyping' = [isTyping EXCEPT ![c] = TRUE]
        /\ emitted' = IF ~isTyping[c]
                      THEN EmitTyping(c, TypingEvent("typing", roomId, ClientUser(c)))
                      ELSE emitted
        /\ sockOut' = IF ~isTyping[c]
                      THEN Emit(c, Event("typing", roomId, ClientUser(c), NoMessage))
                      ELSE sockOut
        /\ timers' = [timers EXCEPT ![c] =
                        ClearTimeout(@, typingTimeout[c]) \cup
                        {[id |-> nKeys + 1, left |-> TimeoutTicks, roomId |-> roomId]}]
        /\ typingTimeout' = [typingTimeout EXCEPT ![c] = nKeys + 1]
    /\ sinceKey' = [sinceKey EXCEPT ![c] = 0]
    /\ UNCHANGED <<clientVars, http, sockIn, serverVars, histVars, storeVars,
                   typingUser, shownTicks>>

\* a setTimeout callback of handleTyping, run once its 2000 ms have passed:
\* setIsTyping(false); emitStopTyping(roomId, ...)
TypingExpires(c) ==
    /\ \E t \in timers[c] :
        /\ t.left = 0
        /\ timers' = [timers EXCEPT ![c] = @ \ {t}]
        /\ emitted' = EmitTyping(c, TypingEvent("stop-typing", t.roomId, ClientUser(c)))
        /\ sockOut' = Emit(c, Event("stop-typing", t.roomId, ClientUser(c), NoMessage))
    /\ isTyping' = [isTyping EXCEPT ![c] = FALSE]
    /\ UNCHANGED <<newMessage, nKeys, typingTimeout, sinceKey, clientVars, http,
                   sockIn, serverVars, histVars, storeVars, typingUser, shownTicks>>

\* one second passes
Tick ==
    /\ \E c \in Clients :
            \/ sinceKey[c] < TimeoutTicks
            \/ \E t \in timers[c] : t.left > 0
            \/ typingUser[c] # NoName /\ shownTicks[c] <= TimeoutTicks
    /\ timers' = [c \in Clients |->
                    {[t EXCEPT !.left = Max2(0, @ - 1)] : t \in timers[c]}]
    /\ sinceKey' = [c \in Clients |-> Min2(sinceKey[c] + 1, TimeoutTicks)]
    /\ shownTicks' = [c \in Clients |->
                        IF typingUser[c] # NoName
                        THEN Min2(shownTicks[c] + 1, TimeoutTicks + 1)
                        ELSE shownTicks[c]]
    /\ UNCHANGED <<newMessage, isTyping, typingTimeout, emitted, nKeys, typingUser,
                   clientVars, netVars, serverVars, histVars, storeVars>>

\* sendMessage, "Stop typing indicator": clearTimeout, setIsTyping(false),
\* emitStopTyping(getRoomId(), currentUser.id)
StopTypingOnSend(c) ==
    /\ timers' = [timers EXCEPT ![c] = ClearTimeout(@, typingTimeout[c])]
    /\ isTyping' = [isTyping EXCEPT ![c] = FALSE]
    /\ emitted' = EmitTyping(c, TypingEvent("stop-typing",
                                windowGetRoomId(ClientUser(c), selected[c]),
                                ClientUser(c)))
    /\ sockOut' = Emit(c, Event("stop-typing",
                                windowGetRoomId(ClientUser(c), selected[c]),
                                ClientUser(c), NoMessage))

\* messages stored for POSTs that were not sent by a ChatWindow
ScriptedStored ==
    Cardinality({q \in http : q.kind = "POST" /\ q.client \notin Clients /\ q.stage # "req"
                                /\ q.status # UNAUTHORIZED})

\* POSTs sent by the ChatWindows so far
PostsSubmitted ==
    (StoredCount - ScriptedStored)
    + Cardinality({q \in http : q.kind = "POST" /\ q.stage = "req" /\ q.client \in Clients})

\* ChatWindow sendMessage up to the POST, text being the input's content:
\* the typing indicator is stopped, then encryptForRoom, then
\* fetch('/api/messages', {method: 'POST', body: {receiverId, encryptedContent}})
SubmitSendUpTo(c, text, cap) ==
    /\ selected[c] # NoUser
    /\ Trim(text) # <<>>
    /\ ~isLoading[c]
    /\ PostsSubmitted < cap
    /\ StopTypingOnSend(c)
    /\ isLoading' = [isLoading EXCEPT ![c] = TRUE]
    /\ \E iv \in ChatIVS :
        http' = http \cup
            {[NoRequest EXCEPT
                !.kind = "POST", !.client = c, !.other = selected[c],
                !.content = encryptForRoom(text, ClientUser(c), selected[c], iv),
                !.text = text,
                !.room = windowGetRoomId(ClientUser(c), selected[c])]}
    /\ UNCHANGED <<connected, selected, messages, pending, nSelects, sockIn,
                   serverVars, histVars, storeVars, newMessage, nKeys, typingTimeout,
                   sinceKey, typingUser, shownTicks>>

SubmitSend(c, text) == SubmitSendUpTo(c, text, MaxSends)

\* ok: the trigger call resolved (FALSE: it rejected or never settled)
RelayEvent(channel, name, message, info, ok) ==
    [channel |-> channel, name |-> name, message |-> message, info |-> info,
     ok |-> ok]

\* getPusherServer: "up" a configured relay that answers, "down" a configured
\* relay whose trigger rejects, "mock" the no-op object returned when the
\* environment variables are not set, "hang" a configured relay whose trigger
\* never settles: the handler stays at its first await and sends no response
RelayModes == {"up", "down", "mock", "hang"}

\* POST /api/messages: 401 without a session; else getOrCreateRoom,
\* addMessage, the two awaited pusher.trigger calls and the response, or the
\* catch block's 500 when a trigger rejects
ServePOST(req, relay) ==
    /\ req \in http
    /\ req.kind = "POST"
    /\ req.stage = "req"
    /\ IF ~req.auth
       THEN /\ http' = (http \ {req}) \cup
                         {[req EXCEPT !.stage = "resp", !.status = UNAUTHORIZED]}
            /\ UNCHANGED <<storeVars, relayLog, serverSawPlaintext>>
       ELSE LET me == ClientUser(req.client)
                rooms1 == getOrCreateRoom(chatRooms, me, req.other)
                roomId == storeGetRoomId(me, req.other)
                message == NewMessage(nextId, me, UserName(me), req.other,
                                      req.content, clock)
                first == RelayEvent(CHAT_PREFIX \o roomId, "new-message", message,
                                    <<>>, relay = "up")
                second == RelayEvent(USER_PREFIX \o req.other, "message-received",
                                     NoMessage, <<roomId, me, UserName(me)>>, TRUE)
            IN  /\ chatRooms' = addMessage(rooms1, roomId, message)
                /\ nextId' = nextId + 1
                /\ clock' = clock + 1
                /\ relayLog' = relayLog \cup
                        (CASE relay = "up" -> {first, second}
                           [] relay = "down" -> {first}
                           [] relay = "mock" -> {}
                           [] relay = "hang" -> {first})
                /\ http' = (http \ {req}) \cup
                        {CASE relay = "down" ->
                                [req EXCEPT !.stage = "resp", !.status = SERVER_ERROR]
                           [] relay = "hang" ->
                                [req EXCEPT !.stage = "await", !.msgs = <<message>>]
                           [] OTHER ->
                                [req EXCEPT !.stage = "resp", !.msgs = <<message>>]}
                /\ serverSawPlaintext' = (serverSawPlaintext \/ req.content = req.text)
    /\ UNCHANGED <<clientVars, sockOut, sockIn, members, socketUserId, onlineUsers,
                   live, roomLog, broadcasts, arrivals, heard, typVars>>

\* ChatWindow sendMessage after the POST was answered.  ok: the message with
\* its plaintext is appended to messages and emitted as send-message and the
\* input is cleared; not ok: the throw is caught and an error is shown.
\* isLoading is cleared either way.
PostContinue(req) ==
    /\ req \in http
    /\ req.kind = "POST"
    /\ req.stage = "resp"
    /\ req.client \in Clients
    /\ LET c == req.client IN
        /\ IF req.status = 200
           THEN LET messageWithContent ==
                        [ClientMessage(req.msgs[1]) EXCEPT !.decryptedContent = req.text]
                IN  /\ messages' = [messages EXCEPT ![c] = Append(@, messageWithContent)]
                    /\ sockOut' = Emit(c, Event("send-message", req.room, NoUser,
                                                messageWithContent))
                    /\ newMessage' = [newMessage EXCEPT ![c] = <<>>]
           ELSE UNCHANGED <<messages, sockOut, newMessage>>
        /\ isLoading' = [isLoading EXCEPT ![c] = FALSE]
    /\ http' = http \ {req}
    /\ UNCHANGED <<connected, selected, pending, nSelects, sockIn, serverVars,
                   histVars, storeVars, isTyping, typingTimeout, timers, sinceKey,
                   emitted, nKeys, typingUser, shownTicks>>

MembersOf(roomId) == IF roomId \in DOMAIN members THEN members[roomId] ELSE {}

SetMembers(roomId, set) ==
    [r \in DOMAIN members \cup {roomId} |-> IF r = roomId THEN set ELSE members[r]]

\* io.emit(...): every socket whose connection is open
LiveSockets == {s \in Sockets : live[s]}

\* a broadcast that leaves the sender out
RoomTargets_exceptSender(c, roomId) == MembersOf(roomId) \ {c}

\* io.to(roomId).emit(...): the sockets joined to the room
RoomTargets(c, roomId) == MembersOf(roomId)

\* socket.to(roomId).emit(...): the sockets joined to the room but socket c
OthersInRoom(c, roomId) == MembersOf(roomId) \ {c}

\* the payload { userId, online } of a user-online event
PresenceEvent(userId, online) ==
    [type |-> "user-online", roomId |-> <<>>, userId |-> userId,
     message |-> NoMessage, online |-> online]

Deliver(targets, event) ==
    [s \in Sockets |-> IF s \in targets THEN Append(sockIn[s], event) ELSE sockIn[s]]

\* an onlineUsers.delete that looks at the socket the entry maps to
DeleteOnline_ifMine(online, userId, c) ==
    IF userId \in DOMAIN online /\ online[userId] = c
    THEN [u \in DOMAIN online \ {userId} |-> online[u]]
    ELSE online

\* onlineUsers.delete(socket.userId)
DeleteOnline(online, userId, c) ==
    [u \in DOMAIN online \ {userId} |-> online[u]]

\* a disconnect that leaves the socket in its rooms
LeaveAll_none(rooms, c) == rooms

\* socket.io on disconnect: the socket leaves every room it had joined
LeaveAll(rooms, c) == [r \in DOMAIN rooms |-> rooms[r] \ {c}]

\* server.js: the handler of the oldest unhandled event of socket c
ServerHandle(c) ==
    /\ sockOut[c] # <<>>
    /\ sockOut' = [sockOut EXCEPT ![c] = Tail(@)]
    /\ LET e == Head(sockOut[c]) IN
        \/ /\ e.type = "join"
           /\ onlineUsers' = [u \in DOMAIN onlineUsers \cup {e.userId} |->
                                 IF u = e.userId THEN c ELSE onlineUsers[u]]
           /\ socketUserId' = [socketUserId EXCEPT ![c] = e.userId]
           /\ sockIn' = Deliver(LiveSockets, PresenceEvent(e.userId, TRUE))
           /\ UNCHANGED <<members, live, roomLog, serverSawPlaintext, broadcasts>>
        \/ /\ e.type = "join-room"
           /\ members' = SetMembers(e.roomId, MembersOf(e.roomId) \cup {c})
           /\ roomLog' = [roomLog EXCEPT ![c] = Append(@, RoomEvent(e.type, e.roomId))]
           /\ UNCHANGED <<onlineUsers, socketUserId, live, sockIn, serverSawPlaintext,
                          broadcasts>>
        \/ /\ e.type = "leave-room"
           /\ members' = SetMembers(e.roomId, MembersOf(e.roomId) \ {c})
           /\ roomLog' = [roomLog EXCEPT ![c] = Append(@, RoomEvent(e.type, e.roomId))]
           /\ UNCHANGED <<onlineUsers, socketUserId, live, sockIn, serverSawPlaintext,
                          broadcasts>>
        \/ /\ e.type = "send-message"
           /\ broadcasts' = broadcasts \cup
                {[message |-> e.message, roomId |-> e.roomId, from |-> c,
                  to |-> RoomTargets(c, e.roomId)]}
           /\ sockIn' = Deliver(RoomTargets(c, e.roomId),
                                Event("new-message", <<>>, NoUser, e.message))
           /\ serverSawPlaintext' =
                (serverSawPlaintext \/ e.message.decryptedContent # <<>>)
           /\ UNCHANGED <<onlineUsers, socketUserId, members, live, roomLog>>
        \/ /\ e.type = "typing"
           /\ sockIn' = Deliver(OthersInRoom(c, e.roomId),
                                Event("user-typing", <<>>, e.userId, NoMessage))
           /\ UNCHANGED <<onlineUsers, socketUserId, members, live, roomLog,
                          serverSawPlaintext, broadcasts>>
        \/ /\ e.type = "stop-typing"
           /\ sockIn' = Deliver(OthersInRoom(c, e.roomId),
                                Event("user-stop-typing", <<>>, e.userId, NoMessage))
           /\ UNCHANGED <<onlineUsers, socketUserId, members, live, roomLog,
                          serverSawPlaintext, broadcasts>>
        \/ /\ e.type = "disconnect"
           /\ members' = LeaveAll(members, c)
           /\ live' = [live EXCEPT ![c] = FALSE]
           /\ roomLog' = [roomLog EXCEPT ![c] = Append(@, RoomEvent(e.type, <<>>))]
           /\ IF socketUserId[c] # NoUser
              THEN /\ onlineUsers' = DeleteOnline(onlineUsers, socketUserId[c], c)
                   /\ sockIn' = Deliver(LiveSockets \ {c},
                                        PresenceEvent(socketUserId[c], FALSE))
              ELSE UNCHANGED <<onlineUsers, sockIn>>
           /\ UNCHANGED <<socketUserId, serverSawPlaintext, broadcasts>>
    /\ UNCHANGED <<clientVars, http, relayLog, arrivals, heard, storeVars, typVars>>

\* the connection of client c closes: disconnectSocket(), the tab closing or
\* the transport failing.  The server's disconnect handler runs after the
\* events the socket had emitted before.
Disconnect(c) ==
    /\ connected[c]
    /\ connected' = [connected EXCEPT ![c] = FALSE]
    /\ sockOut' = [sockOut EXCEPT ![c] =
                      Append(@, Event("disconnect", <<>>, NoUser, NoMessage))]
    /\ UNCHANGED <<selected, messages, pending, isLoading, nSelects, http, sockIn,
                   serverVars, histVars, storeVars, typVars>>

\* ChatWindow handleNewMessage, first setMessages updater: a message whose id
\* is present is dropped, otherwise its decryption is started.  Without a
\* mounted ChatWindow no listener is registered.
HandleNewMessage(c) ==
    /\ connected[c]
    /\ sockIn[c] # <<>>
    /\ Head(sockIn[c]).type = "new-message"
    /\ sockIn' = [sockIn EXCEPT ![c] = Tail(@)]
    /\ LET message == Head(sockIn[c]).message IN
        /\ heard' = [heard EXCEPT ![c] = Append(@, message.id)]
        /\ IF selected[c] = NoUser
           THEN UNCHANGED <<pending, arrivals>>
           ELSE /\ arrivals' = IF message.id \in DOMAIN arrivals[c]
                               THEN [arrivals EXCEPT ![c][message.id] = Bump(@)]
                               ELSE arrivals
                /\ pending' = IF HasId(messages[c], message.id) THEN pending
                              ELSE [pending EXCEPT ![c] = @ \cup {message}]
    /\ UNCHANGED <<connected, selected, messages, isLoading, nSelects, http, sockOut,
                   serverVars, serverSawPlaintext, broadcasts, storeVars, typVars>>

\* ChatWindow handleUserTyping: the indicator is set when the event names the
\* selected user.  emitTyping is called with currentUser's id and name, so the
\* name shown is the name of data.userId.
HandleUserTyping(c) ==
    /\ connected[c]
    /\ sockIn[c] # <<>>
    /\ Head(sockIn[c]).type = "user-typing"
    /\ sockIn' = [sockIn EXCEPT ![c] = Tail(@)]
    /\ LET data == Head(sockIn[c]) IN
        IF selected[c] # NoUser /\ data.userId = selected[c]
        THEN /\ typingUser' = [typingUser EXCEPT ![c] = UserName(data.userId)]
             /\ shownTicks' = [shownTicks EXCEPT ![c] = 0]
        ELSE UNCHANGED <<typingUser, shownTicks>>
    /\ UNCHANGED <<clientVars, http, sockOut, serverVars, histVars, storeVars,
                   newMessage, isTyping, typingTimeout, timers, sinceKey, emitted,
                   nKeys>>

\* ChatWindow handleUserStopTyping: setTypingUser(null) when the event names
\* the selected user
HandleUserStopTyping(c) ==
    /\ connected[c]
    /\ sockIn[c] # <<>>
    /\ Head(sockIn[c]).type = "user-stop-typing"
    /\ sockIn' = [sockIn EXCEPT ![c] = Tail(@)]
    /\ LET data == Head(sockIn[c]) IN
        IF selected[c] # NoUser /\ data.userId = selected[c]
        THEN typingUser' = [typingUser EXCEPT ![c] = NoName]
        ELSE UNCHANGED typingUser
    /\ UNCHANGED <<clientVars, http, sockOut, serverVars, histVars, storeVars,
                   newMessage, isTyping, typingTimeout, timers, sinceKey, emitted,
                   nKeys, shownTicks>>

\* a user-online event: no component registers a listener for it
NoListener(c) ==
    /\ connected[c]
    /\ sockIn[c] # <<>>
    /\ Head(sockIn[c]).type = "user-online"
    /\ sockIn' = [sockIn EXCEPT ![c] = Tail(@)]
    /\ UNCHANGED <<clientVars, http, sockOut, serverVars, histVars, storeVars, typVars>>

\* socket.io-client hands the oldest undelivered event to its listeners
ClientReceive(c) ==
    \/ HandleNewMessage(c)
    \/ HandleUserTyping(c)
    \/ HandleUserStopTyping(c)
    \/ NoListener(c)

\* handleNewMessage, the decryptMessage(...).then callback: appended unless
\* the id has appeared meanwhile
DecryptDone(c, message) ==
    /\ message \in pending[c]
    /\ pending' = [pending EXCEPT ![c] = @ \ {message}]
    /\ LET decrypted == decryptMessage(ClientUser(c), message) IN
        messages' = [messages EXCEPT ![c] =
                        IF HasId(@, decrypted.id) THEN @ ELSE Append(@, decrypted)]
    /\ UNCHANGED <<connected, selected, isLoading, nSelects, netVars, serverVars,
                   histVars, storeVars, typVars>>

(***************************************************************************)
(* Specifications                                                          *)
(***************************************************************************)
RoomNext ==
    \/ CallGetRoomId /\ UNCHANGED <<cryptoVars, storeVars, sret, chatVars, userVars>>
    \/ NextPair /\ UNCHANGED <<cryptoVars, storeVars, sret, chatVars, userVars>>

InitRoomId ==
    /\ ru1 \in IdStrings
    /\ ru2 \in IdStrings
    /\ rres = NoRoomIds
    /\ rpc = "call"
    /\ CryptoIdle /\ StoreInit /\ sret = NoCall /\ ChatInit /\ UsersIdle

SpecRoomId == InitRoomId /\ [][RoomNext]_vars

CryptoNext ==
    \/ CallEncryptForRoom /\ UNCHANGED <<roomVars, storeVars, sret, chatVars, userVars>>
    \/ CallDecryptFromRoom /\ UNCHANGED <<roomVars, storeVars, sret, chatVars, userVars>>

InitCrypto ==
    /\ cmsg \in Plaintexts
    /\ cme \in UserIds
    /\ cother \in UserIds
    /\ cenv = <<>>
    /\ cdecAs = <<>>
    /\ cout = NoResult
    /\ cpc = "encrypt"
    /\ RoomIdle /\ StoreInit /\ sret = NoCall /\ ChatInit /\ UsersIdle

SpecCrypto == InitCrypto /\ [][CryptoNext]_vars

StoreNext ==
    \/ \E p \in StorePairs :
            CallGetOrCreateRoom(p[1], p[2]) /\ UNCHANGED <<roomVars, cryptoVars, chatVars, userVars>>
    \/ \E p \in StorePairs :
            CallAddMessage(p[1], p[2]) /\ UNCHANGED <<roomVars, cryptoVars, chatVars, userVars>>
    \/ \E r \in StoreRoomIds, n \in StoreLimits :
            CallGetMessages(r, n) /\ UNCHANGED <<roomVars, cryptoVars, chatVars, userVars>>
    \/ \E r \in StoreRoomIds, u \in StoreUsers :
            CallMarkMessagesAsRead(r, u) /\ UNCHANGED <<roomVars, cryptoVars, chatVars, userVars>>
    \/ \E r \in StoreRoomIds, u \in StoreUsers :
            CallGetUnreadCount(r, u) /\ UNCHANGED <<roomVars, cryptoVars, chatVars, userVars>>

InitStore ==
    /\ StoreInit /\ sret = NoCall
    /\ RoomIdle /\ CryptoIdle /\ ChatInit /\ UsersIdle

SpecStore == InitStore /\ [][StoreNext]_vars

Others == <<roomVars, cryptoVars, sret, userVars>>

Next ==
    \/ \E c \in Clients : ConnectSocket(c) /\ UNCHANGED Others
    \/ \E c \in Clients, u \in UserIds : SelectUser(c, u) /\ UNCHANGED Others
    \/ \E req \in http : ServeGET(req) /\ UNCHANGED Others
    \/ \E req \in http : FetchApply(req) /\ UNCHANGED Others
    \/ \E c \in Clients, text \in Texts : SubmitSend(c, text) /\ UNCHANGED Others
    \/ \E req \in http : ServePOST(req, "up") /\ UNCHANGED Others
    \/ \E req \in http : PostContinue(req) /\ UNCHANGED Others
    \/ \E c \in Sockets : ServerHandle(c) /\ UNCHANGED Others
    \/ \E c \in Clients : ClientReceive(c) /\ UNCHANGED Others
    \/ \E c \in Clients : \E m \in pending[c] : DecryptDone(c, m) /\ UNCHANGED Others

Init ==
    /\ ChatInit /\ StoreInit
    /\ sret = NoCall /\ RoomIdle /\ CryptoIdle /\ UsersIdle

Spec == Init /\ [][Next]_vars

\* The composer of one client: the input, the typing indicator and the
\* sends, with the socket connecting and the conversation changing
TypingNext ==
    \/ \E c \in Typists : ConnectSocket(c) /\ UNCHANGED Others
    \/ \E c \in Typists, u \in UserIds : SelectUser(c, u) /\ UNCHANGED Others
    \/ \E c \in Typists, value \in TypedValues : Keystroke(c, value) /\ UNCHANGED Others
    \/ \E c \in Typists : TypingExpires(c) /\ UNCHANGED Others
    \/ Tick /\ UNCHANGED Others
    \/ \E c \in Typists : SubmitSend(c, newMessage[c]) /\ UNCHANGED Others
    \/ \E req \in http : ServePOST(req, "up") /\ UNCHANGED Others
    \/ \E req \in http : PostContinue(req) /\ UNCHANGED Others

InitTyping ==
    /\ ChatInit /\ StoreInit
    /\ sret = NoCall /\ RoomIdle /\ CryptoIdle /\ UsersIdle

SpecTyping == InitTyping /\ [][TypingNext]_vars

\* a message built by a peer, never stored: it names alice as its sender and
\* carries a text of the peer's choice
ForgedMessage ==
    [ClientMessage(NewMessage(0, ALICE, UserName(ALICE), BOB, <<>>, 0))
        EXCEPT !.decryptedContent = HELLO]

\* what the session-less peer has emitted on its socket and sent to the REST
\* routes when the run starts
AnonScripts ==
    {<<Event("join-room", BOB_ROOM, NoUser, NoMessage),
       Event("send-message", BOB_ROOM, NoUser, ForgedMessage)>>,
     <<Event("send-message", BOB_ROOM, NoUser, ForgedMessage)>>}

AnonRequests ==
    {[NoRequest EXCEPT !.kind = "GET", !.client = ANON, !.other = BOB, !.auth = FALSE],
     [NoRequest EXCEPT !.kind = "POST", !.client = ANON, !.other = BOB,
                       !.content = ENVELOPE, !.auth = FALSE]}

\* a POST sent outside ChatWindow with bob's session, receiverId being bob's
\* own id: the route checks only that receiverId is not empty
SelfPost ==
    [NoRequest EXCEPT !.kind = "POST", !.client = ANON, !.other = BOB,
                      !.content = ENVELOPE]

ScriptedRequests == AnonRequests \cup {SelfPost}

\* Sends with the relay up, down or not configured, next to a peer without a
\* session
FaultsNext ==
    \/ \E c \in Clients, text \in Texts : SubmitSend(c, text) /\ UNCHANGED Others
    \/ \E req \in http : ServeGET(req) /\ UNCHANGED Others
    \/ \E req \in http, relay \in RelayModes : ServePOST(req, relay) /\ UNCHANGED Others
    \/ \E req \in http : PostContinue(req) /\ UNCHANGED Others
    \/ \E c \in Sockets : ServerHandle(c) /\ UNCHANGED Others
    \/ \E c \in Clients : ClientReceive(c) /\ UNCHANGED Others
    \/ \E c \in Clients : \E m \in pending[c] : DecryptDone(c, m) /\ UNCHANGED Others

InitFaults ==
    /\ \E script \in AnonScripts : ChatInitWith(script, ScriptedRequests)
    /\ StoreInit
    /\ sret = NoCall /\ RoomIdle /\ CryptoIdle /\ UsersIdle

SpecFaults == InitFaults /\ [][FaultsNext]_vars

\* what a second peer has emitted on its socket when the run starts: a second
\* session of bob that sends and then closes, or a peer without identity that
\* joins bob's room, announces typing, leaves the room and then sends, or a
\* session that joins under two user ids and then closes
SocketScripts ==
    {<<Event("join", <<>>, BOB, NoMessage),
       Event("join-room", BOB_ROOM, NoUser, NoMessage),
       Event("send-message", BOB_ROOM, NoUser, ForgedMessage),
       Event("disconnect", <<>>, NoUser, NoMessage)>>,
     <<Event("join-room", BOB_ROOM, NoUser, NoMessage),
       Event("typing", BOB_ROOM, ALICE, NoMessage),
       Event("leave-room", BOB_ROOM, NoUser, NoMessage),
       Event("stop-typing", BOB_ROOM, ALICE, NoMessage),
       Event("send-message", BOB_ROOM, NoUser, ForgedMessage)>>,
     <<Event("join", <<>>, CAROL, NoMessage),
       Event("join", <<>>, ALICE, NoMessage),
       Event("disconnect", <<>>, NoUser, NoMessage)>>}

\* server.js with its sockets: connections, rooms, presence, typing and
\* message broadcasts, sockets closing
SocketsNext ==
    \/ \E c \in Roamers : ConnectSocket(c) /\ UNCHANGED <<Others, storeVars>>
    \/ \E c \in Roamers, u \in UserIds : SelectUser(c, u) /\ UNCHANGED <<Others, storeVars>>
    \/ \E c \in Clients : Disconnect(c) /\ UNCHANGED <<Others, storeVars>>
    \/ \E c \in Sockets : ServerHandle(c) /\ UNCHANGED <<Others, storeVars>>
    \/ \E c \in Clients : ClientReceive(c) /\ UNCHANGED <<Others, storeVars>>
    \/ \E c \in Clients : \E m \in pending[c] : DecryptDone(c, m) /\ UNCHANGED Others

InitSockets ==
    /\ \E script \in SocketScripts : ChatInitWith(script, {})
    /\ StoreInit
    /\ sret = NoCall /\ RoomIdle /\ CryptoIdle /\ UsersIdle

SpecSockets == InitSockets /\ [][SocketsNext]_vars

\* Two users in one conversation, both sending: alice opens her conversation
\* with bob, who has his with alice open
OrderNext ==
    \/ \E c \in Roamers : ConnectSocket(c) /\ UNCHANGED Others
    \/ \E c \in Roamers : SelectUser(c, BOB) /\ UNCHANGED Others
    \/ \E c \in Clients, text \in Texts :
            SubmitSendUpTo(c, text, MaxOrdered) /\ UNCHANGED Others
    \/ \E req \in http : ServePOST(req, "up") /\ UNCHANGED Others
    \/ \E req \in http : PostContinue(req) /\ UNCHANGED Others
    \/ \E c \in Sockets : ServerHandle(c) /\ UNCHANGED Others
    \/ \E c \in Clients : ClientReceive(c) /\ UNCHANGED Others
    \/ \E c \in Clients : \E m \in pending[c] : DecryptDone(c, m) /\ UNCHANGED Others

InitOrder ==
    /\ ChatInit /\ StoreInit
    /\ sret = NoCall /\ RoomIdle /\ CryptoIdle /\ UsersIdle

SpecOrder == InitOrder /\ [][OrderNext]_vars

\* an envelope made for the room of bob and carol
OTHER_ROOM_ENVELOPE ==
    encryptForRoom(HELLO, BOB, CAROL, CHOOSE iv \in ChatIVS : TRUE)

\* a message pushed by a peer that no client of the room can decrypt: it is
\* sealed with another room's key
Undecryptable ==
    ClientMessage(NewMessage(0, BOB, UserName(BOB), ALICE, OTHER_ROOM_ENVELOPE, 0))

DecryptScript == <<Event("send-message", BOB_ROOM, NoUser, Undecryptable)>>

\* a POST sent outside ChatWindow with bob's session to alice, its
\* encryptedContent not being base64
GarbledPost ==
    [NoRequest EXCEPT !.kind = "POST", !.client = ANON, !.other = ALICE,
                      !.content = ENVELOPE]

\* alice opens her conversation with bob, which holds a message she cannot
\* decrypt next to one she can, and is pushed one she cannot decrypt
DecryptNext ==
    \/ \E c \in Roamers : ConnectSocket(c) /\ UNCHANGED Others
    \/ \E c \in Roamers : SelectUser(c, BOB) /\ UNCHANGED Others
    \/ \E req \in http : ServeGET(req) /\ UNCHANGED Others
    \/ \E req \in http : FetchApply(req) /\ UNCHANGED Others
    \/ \E c \in Clients \ Roamers, text \in Texts : SubmitSend(c, text) /\ UNCHANGED Others
    \/ \E req \in http : ServePOST(req, "up") /\ UNCHANGED Others
    \/ \E req \in http : PostContinue(req) /\ UNCHANGED Others
    \/ \E c \in Sockets : ServerHandle(c) /\ UNCHANGED Others
    \/ \E c \in Clients : ClientReceive(c) /\ UNCHANGED Others
    \/ \E c \in Clients : \E m \in pending[c] : DecryptDone(c, m) /\ UNCHANGED Others

InitDecrypt ==
    /\ ChatInitWith(DecryptScript, {GarbledPost})
    /\ StoreInit
    /\ sret = NoCall /\ RoomIdle /\ CryptoIdle /\ UsersIdle

SpecDecrypt == InitDecrypt /\ [][DecryptNext]_vars

\* bob types in his conversation with alice and may close his connection;
\* alice connects and opens the conversation, where the indicator is shown
IndicatorNext ==
    \/ \E c \in Roamers : ConnectSocket(c) /\ UNCHANGED Others
    \/ \E c \in Roamers : SelectUser(c, BOB) /\ UNCHANGED Others
    \/ \E req \in http : ServeGET(req) /\ UNCHANGED Others
    \/ \E req \in http : FetchApply(req) /\ UNCHANGED Others
    \/ \E c \in Clients \ Roamers, value \in TypedValues :
            Keystroke(c, value) /\ UNCHANGED Others
    \/ \E c \in Clients \ Roamers : TypingExpires(c) /\ UNCHANGED Others
    \/ Tick /\ UNCHANGED Others
    \/ \E c \in Clients \ Roamers : Disconnect(c) /\ UNCHANGED <<Others, storeVars>>
    \/ \E c \in Sockets : ServerHandle(c) /\ UNCHANGED Others
    \/ \E c \in Clients : ClientReceive(c) /\ UNCHANGED Others

InitIndicator ==
    /\ ChatInit /\ StoreInit
    /\ sret = NoCall /\ RoomIdle /\ CryptoIdle /\ UsersIdle

SpecIndicator == InitIndicator /\ [][IndicatorNext]_vars

\* requests sent outside ChatWindow whose receiverId / otherUserId is no
\* user's id: bob POSTs to 'a1_z', alice POSTs to 'z_b2' and GETs the
\* conversation with 'z_b2'
A1_Z == ALICE \o UNDERSCORE \o <<122>>
Z_B2 == <<122>> \o UNDERSCORE \o BOB

OutsideRequests ==
    {[NoRequest EXCEPT !.kind = "POST", !.client = ANON, !.other = A1_Z,
                       !.content = ENVELOPE],
     [NoRequest EXCEPT !.kind = "POST", !.client = ANON_A, !.other = Z_B2,
                       !.content = ENVELOPE],
     [NoRequest EXCEPT !.kind = "GET", !.client = ANON_A, !.other = Z_B2]}

\* the REST routes serving bob's ChatWindow and the requests sent outside it
RoutesNext ==
    \/ \E c \in Clients \ Roamers, text \in Texts : SubmitSend(c, text) /\ UNCHANGED Others
    \/ \E req \in http : ServeGET(req) /\ UNCHANGED Others
    \/ \E req \in http : ServePOST(req, "up") /\ UNCHANGED Others
    \/ \E req \in http : PostContinue(req) /\ UNCHANGED Others
    \/ \E c \in Sockets : ServerHandle(c) /\ UNCHANGED Others
    \/ \E c \in Clients : ClientReceive(c) /\ UNCHANGED Others

InitRoutes ==
    /\ ChatInitWith(<<>>, OutsideRequests)
    /\ StoreInit
    /\ sret = NoCall /\ RoomIdle /\ CryptoIdle /\ UsersIdle

SpecRoutes == InitRoutes /\ [][RoutesNext]_vars

\* concurrent createUser calls on a fresh database
UsersNext ==
    \/ \E p \in Callers, email \in Emails :
            StartCreateUser(p, email)
                /\ UNCHANGED <<roomVars, cryptoVars, storeVars, sret, chatVars>>
    \/ \E p \in Callers :
            DemoResume(p) /\ UNCHANGED <<roomVars, cryptoVars, storeVars, sret, chatVars>>
    \/ \E p \in Callers :
            CreateUserCheck(p) /\ UNCHANGED <<roomVars, cryptoVars, storeVars, sret, chatVars>>
    \/ \E p \in Callers :
            CreateUserAdd(p) /\ UNCHANGED <<roomVars, cryptoVars, storeVars, sret, chatVars>>

InitUsers ==
    /\ UsersIdle
    /\ RoomIdle /\ CryptoIdle /\ StoreInit /\ sret = NoCall /\ ChatInit

SpecUsers == InitUsers /\ [][UsersNext]_vars

(***************************************************************************)
(* POST /api/key-exchange                                                  *)
(***************************************************************************)
BAD_REQUEST == 400
MaxKeyExchanges == 2

PUBLIC_KEY == <<4, 107>>

\* isResponse as it comes out of request.json(): undefined (<<>>), false
\* (<<0>>) or true (<<1>>); Truthy is the test of `isResponse ? ... : ...`
IsResponseValues == {<<>>, <<0>>, <<1>>}
Truthy(v) == v # <<>> /\ v # <<0>>

\* the bodies POSTed to the route: other is targetUserId, content is
\* publicKey, text is isResponse.  The requests without a session carry a
\* complete body.
KeyExchangeRequests ==
    {[NoRequest EXCEPT !.kind = "KEYX", !.client = c, !.other = target,
                       !.content = key, !.text = isResponse] :
        c \in Clients, target \in {NoUser, BOB, CAROL}, key \in {<<>>, PUBLIC_KEY},
        isResponse \in IsResponseValues}
    \cup
    {[NoRequest EXCEPT !.kind = "KEYX", !.client = ANON, !.other = BOB,
                       !.content = PUBLIC_KEY, !.text = isResponse, !.auth = FALSE] :
        isResponse \in {<<>>, <<1>>}}

keyExchangeEventName_request(isResponse) == "key-exchange-request"

keyExchangeEventName(isResponse) ==
    IF Truthy(isResponse) THEN "key-exchange-response" ELSE "key-exchange-request"

\* the trigger call of the route; info holds publicKey, fromUserId and
\* fromUserName
keyExchangeEvent(req, ok) ==
    RelayEvent(USER_PREFIX \o req.other, keyExchangeEventName(req.text), NoMessage,
               <<req.content, ClientUser(req.client), UserName(ClientUser(req.client))>>,
               ok)

\* a caller sends a request to the route
SubmitKeyExchange(req) ==
    /\ req \in KeyExchangeRequests
    /\ req \notin http
    /\ Cardinality({q \in http : q.kind = "KEYX"}) < MaxKeyExchanges
    /\ http' = http \cup {req}
    /\ UNCHANGED <<clientVars, sockOut, sockIn, serverVars, histVars, typVars, storeVars>>

\* POST /api/key-exchange: 401 without a session, 400 without targetUserId or
\* publicKey, else one awaited pusher.trigger and the success response, or the
\* catch block's 500 when the trigger rejects, or no response when it never
\* settles
ServeKeyExchange(req, relay) ==
    /\ req \in http
    /\ req.kind = "KEYX"
    /\ req.stage = "req"
    /\ IF ~req.auth
       THEN /\ http' = (http \ {req}) \cup
                         {[req EXCEPT !.stage = "resp", !.status = UNAUTHORIZED]}
            /\ UNCHANGED relayLog
       ELSE IF req.other = NoUser \/ req.content = <<>>
       THEN /\ http' = (http \ {req}) \cup
                         {[req EXCEPT !.stage = "resp", !.status = BAD_REQUEST]}
            /\ UNCHANGED relayLog
       ELSE /\ relayLog' = relayLog \cup
                    (IF relay = "mock" THEN {} ELSE {keyExchangeEvent(req, relay = "up")})
            /\ http' = (http \ {req}) \cup
                    {CASE relay = "down" ->
                            [req EXCEPT !.stage = "resp", !.status = SERVER_ERROR]
                       [] relay = "hang" -> [req EXCEPT !.stage = "await"]
                       [] OTHER -> [req EXCEPT !.stage = "resp"]}
    /\ UNCHANGED <<clientVars, sockOut, sockIn, members, socketUserId, onlineUsers,
                   live, roomLog, histVars, typVars, storeVars>>

KeyExchangeNext ==
    \/ \E req \in KeyExchangeRequests : SubmitKeyExchange(req) /\ UNCHANGED Others
    \/ \E req \in http, relay \in RelayModes : ServeKeyExchange(req, relay) /\ UNCHANGED Others

InitKeyExchange ==
    /\ ChatInit
    /\ StoreInit
    /\ sret = NoCall /\ RoomIdle /\ CryptoIdle /\ UsersIdle

SpecKeyExchange == InitKeyExchange /\ [][KeyExchangeNext]_vars

(***************************************************************************)
(* Claims                                                                  *)
(***************************************************************************)

\* every message in the store
StoredMessages ==
    UNION {{chatRooms[r].messages[i] : i \in 1..Len(chatRooms[r].messages)} :
              r \in DOMAIN chatRooms}

\* a message payload that carries a plaintext
CarriesPlaintext(m) == "decryptedContent" \in DOMAIN m /\ m.decryptedContent # <<>>

\* nothing is in flight: no request or response, no socket event, no
\* decryption
Quiet ==
    /\ \A q \in http : q.client \notin Clients /\ q.stage = "resp"
    /\ \A c \in Sockets : sockOut[c] = <<>>
    /\ \A c \in Clients : sockIn[c] = <<>> /\ pending[c] = {}

\* C1: when the recipient of a message M has M's room open and M reached it
\* more than once (pushed events, bulk loads that returned M), then once
\* everything in flight has been delivered its local sequence holds exactly
\* one entry with M's id.
C1_RecipientHoldsOneCopy ==
    \A c \in Clients : \A m \in StoredMessages :
        (/\ Quiet
         /\ m.receiverId = ClientUser(c)
         /\ selected[c] = m.senderId
         /\ arrivals[c][m.id] >= 2)
        => CountId(messages[c], m.id) = 1

\* C1 for a recipient that opened no other conversation before
C1_OneCopyFirstConversation ==
    \A c \in Clients : \A m \in StoredMessages :
        (/\ Quiet
         /\ m.receiverId = ClientUser(c)
         /\ selected[c] = m.senderId
         /\ (c \in Roamers => nSelects <= 1)
         /\ arrivals[c][m.id] >= 2)
        => CountId(messages[c], m.id) = 1

\* the recipient's sequence never holds two entries with one id
C1_RecipientNeverTwoCopies ==
    \A c \in Clients : \A m \in StoredMessages :
        m.receiverId = ClientUser(c) => CountId(messages[c], m.id) <= 1

\* C2: no payload that reaches the server (the POST body, a send-message
\* event, a relay publish) contains the plaintext of a message.
C2_ServerNeverSeesPlaintext ==
    /\ ~serverSawPlaintext
    /\ \A e \in relayLog : ~CarriesPlaintext(e.message)

\* the plaintext only ever reaches the server in send-message events: the
\* POST body and the relay publishes carry the envelope alone
C2_RestAndRelayCarryEnvelope ==
    /\ \A q \in http : q.kind = "POST" => q.content # q.text
    /\ \A e \in relayLog : ~CarriesPlaintext(e.message)

\* C3: a message the client itself sent is in the sender's own local
\* sequence exactly once, after its send completed and every later copy
\* (echo, bulk load) has been delivered, the conversation being still open.
C3_SenderHoldsOwnOnce ==
    \A c \in Clients : \A m \in StoredMessages :
        (/\ Quiet
         /\ m.senderId = ClientUser(c)
         /\ selected[c] = m.receiverId)
        => CountId(messages[c], m.id) = 1

\* C3 for a sender that changes conversation at no time
C3_SettledSenderHoldsOwnOnce ==
    \A c \in Clients \ Roamers : \A m \in StoredMessages :
        (Quiet /\ m.senderId = ClientUser(c)) => CountId(messages[c], m.id) = 1

\* C4: for all user ids a and b, room(a,b) = room(b,a), in the client crypto
\* module and in the server message store.
C4_RoomIdCommutative ==
    rpc = "done" =>
        /\ rres.crypto12 = rres.crypto21
        /\ rres.store12 = rres.store21

\* getRoomId was applied to a pair the sort has to swap
C4_Witness ==
    /\ rpc = "done"
    /\ StrLess(ru2, ru1)
    /\ rres.crypto12 = ROOM_PREFIX \o ru2 \o UNDERSCORE \o ru1

\* C5: decrypting the envelope of encryptForRoom(m,a,b) as either participant
\* returns exactly m.
C5_RoundTrip ==
    (cpc = "done" /\ (cdecAs = <<cme, cother>> \/ cdecAs = <<cother, cme>>))
        => (cout.ok /\ cout.val = cmsg)

\* C5 restricted to well-formed text that does not begin with U+FEFF
WellFormed(s) ==
    \A i \in 1..Len(s) :
        /\ IsHighSurrogate(s[i]) => (i < Len(s) /\ IsLowSurrogate(s[i + 1]))
        /\ IsLowSurrogate(s[i]) => (i > 1 /\ IsHighSurrogate(s[i - 1]))

C5_RoundTripWellFormed ==
    (/\ cpc = "done"
     /\ (cdecAs = <<cme, cother>> \/ cdecAs = <<cother, cme>>)
     /\ WellFormed(cmsg)
     /\ (cmsg = <<>> \/ cmsg[1] # BOM))
        => (cout.ok /\ cout.val = cmsg)

\* C6: decrypting an envelope with the key derived for a different room than
\* the one it was encrypted for fails; it never returns a plaintext.
C6_WrongRoomFails ==
    (cpc = "done" /\ getRoomId(cdecAs[1], cdecAs[2]) # getRoomId(cme, cother))
        => ~cout.ok

\* an envelope was decrypted under another room's key
C6_Witness ==
    /\ cpc = "done"
    /\ cenv # <<>>
    /\ getRoomId(cdecAs[1], cdecAs[2]) # getRoomId(cme, cother)
    /\ ~cout.ok

\* the last Min(n, Len(msgs)) entries of msgs, in order
LastN(msgs, n) == SubSeq(msgs, Len(msgs) - Min2(n, Len(msgs)) + 1, Len(msgs))

RoomMessages(roomId) ==
    IF roomId \in DOMAIN chatRooms THEN chatRooms[roomId].messages ELSE <<>>

\* C7: for every room and every limit N >= 0, list(roomId, N) returns at most
\* N messages, the N most recently appended ones, in append order.
C7_ListAtMostN ==
    sret.op = "getMessages" =>
        /\ Len(sret.val) <= sret.limit
        /\ sret.val = LastN(RoomMessages(sret.room), sret.limit)

\* C7 for limits N >= 1
C7_ListPositiveLimit ==
    (sret.op = "getMessages" /\ sret.limit >= 1) =>
        /\ Len(sret.val) <= sret.limit
        /\ sret.val = LastN(RoomMessages(sret.room), sret.limit)

\* C8: for every room and user u, immediately after markRead(roomId, u) the
\* value of unreadCount(roomId, u) is 0.
C8_MarkReadZeroesUnread ==
    sret.op = "markMessagesAsRead" =>
        getUnreadCount(chatRooms, sret.room, sret.user) = 0

\* markMessagesAsRead ran on a room that held unread messages for the user
C8_Witness ==
    /\ sret.op = "markMessagesAsRead"
    /\ sret.num > 0
    /\ getUnreadCount(chatRooms, sret.room, sret.user) = 0

SameButIsRead(m1, m2) == [m1 EXCEPT !.isRead = FALSE] = [m2 EXCEPT !.isRead = FALSE]

\* C9: markRead(roomId, u) leaves unchanged the isRead flag of every message
\* whose receiver is not u, every message of every other room, and every
\* field other than isRead of every message.
C9_MarkReadFrame ==
    [][sret'.op = "markMessagesAsRead" =>
        /\ DOMAIN chatRooms' = DOMAIN chatRooms
        /\ \A r \in DOMAIN chatRooms :
            /\ r # sret'.room => chatRooms'[r] = chatRooms[r]
            /\ chatRooms'[r].id = chatRooms[r].id
            /\ chatRooms'[r].participants = chatRooms[r].participants
            /\ Len(chatRooms'[r].messages) = Len(chatRooms[r].messages)
            /\ \A i \in 1..Len(chatRooms[r].messages) :
                /\ SameButIsRead(chatRooms'[r].messages[i], chatRooms[r].messages[i])
                /\ chatRooms[r].messages[i].receiverId # sret'.user =>
                     chatRooms'[r].messages[i].isRead = chatRooms[r].messages[i].isRead
      ]_vars

\* markMessagesAsRead flipped a message while an unread message for another
\* receiver sits in the same room and an unread message for the same user
\* sits in another room
C9_Witness ==
    /\ sret.op = "markMessagesAsRead"
    /\ sret.num > 0
    /\ \E i \in 1..Len(RoomMessages(sret.room)) :
        /\ RoomMessages(sret.room)[i].receiverId # sret.user
        /\ ~RoomMessages(sret.room)[i].isRead
    /\ \E r \in DOMAIN chatRooms :
        /\ r # sret.room
        /\ \E i \in 1..Len(chatRooms[r].messages) :
            /\ chatRooms[r].messages[i].receiverId = sret.user
            /\ ~chatRooms[r].messages[i].isRead

\* C10: after a client emitted typing and its 2 s timeout emitted the
\* stop-typing of that episode, the next event it emits is typing: no second
\* stop-typing is emitted before the client has emitted typing again.
C10_OneStopPerEpisode ==
    \A c \in Clients : \A i \in 2..(Len(emitted[c]) - 1) :
        (emitted[c][i - 1].type = "typing" /\ emitted[c][i].type = "stop-typing")
            => emitted[c][i + 1].type = "typing"

\* while the timeout is pending no stop-typing follows the episode's typing
C10_NoStopBeforeExpiry ==
    \A c \in Clients :
        (timers[c] # {} /\ emitted[c] # <<>>)
            => emitted[c][Len(emitted[c])].type = "typing"

PairSet(p) == {p[1], p[2]}

\* C12: getOrCreateRoom called for a pair that has a room, in either
\* argument order, changes nothing and returns that room with its messages;
\* and in every state at most one ChatRoom exists per unordered pair.
C12_GetOrCreateRoomIdempotent ==
    /\ [][sret'.op = "getOrCreateRoom" =>
            \A r \in DOMAIN chatRooms :
                PairSet(chatRooms[r].participants) = PairSet(sret'.pair) =>
                    /\ chatRooms' = chatRooms
                    /\ sret'.room = chatRooms[r].id
                    /\ sret'.val = chatRooms[r].messages
         ]_vars
    /\ [](\A r1, r2 \in DOMAIN chatRooms :
            PairSet(chatRooms[r1].participants) = PairSet(chatRooms[r2].participants)
                => r1 = r2)

\* getOrCreateRoom(bob, alice) returned the room created for (alice, bob),
\* which holds a message
C12_Witness ==
    /\ sret.op = "getOrCreateRoom"
    /\ sret.pair = <<BOB, ALICE>>
    /\ sret.val # <<>>
    /\ sret.room \in DOMAIN chatRooms
    /\ chatRooms[sret.room].participants = <<ALICE, BOB>>

\* a request without a session is answered 401 and the store is as before
RestRejectsUnauthenticated ==
    \A req \in http :
        (~req.auth /\ req.stage = "req" /\ req \notin http')
            => /\ storeVars' = storeVars
               /\ [req EXCEPT !.stage = "resp", !.status = UNAUTHORIZED] \in http'

\* a socket that presented no identity is joined to no room and none of its
\* events was broadcast
SocketsNeedIdentity ==
    \A s \in Sockets :
        socketUserId[s] = NoUser =>
            /\ \A r \in DOMAIN members : s \notin members[r]
            /\ \A b \in broadcasts : b.from # s

\* C13: a REST request without a verified identity is rejected with the
\* store unchanged, and a socket session that presented no verified identity
\* can neither join a room nor broadcast an event into one.
C13_UnverifiedRejected ==
    /\ [][RestRejectsUnauthenticated]_vars
    /\ []SocketsNeedIdentity

\* C13, the REST routes alone
C13_RestUnauthorized == [][RestRejectsUnauthenticated]_vars

\* C14: when the relay publish of a send fails, the message is persisted all
\* the same and, once everything in flight is delivered, has been broadcast
\* to its room on the direct path.
C14_RelayFailureNonFatal ==
    Quiet =>
        \A e \in relayLog :
            ~e.ok => /\ e.message \in StoredMessages
                     /\ \E b \in broadcasts : b.message.id = e.message.id

\* C14, persistence alone
C14_RelayFailureStillPersists ==
    \A e \in relayLog : ~e.ok => e.message \in StoredMessages

\* the relay publish of new-message for stored message m on chat-{roomId}
RelayPublished(m) ==
    \E e \in relayLog :
        /\ e.name = "new-message"
        /\ e.message = m
        /\ e.channel = CHAT_PREFIX \o storeGetRoomId(m.senderId, m.receiverId)
        /\ e.ok

\* C15: every message appended to a room has, once everything in flight is
\* delivered, been published on the relay channel chat-{roomId} and been
\* broadcast as new-message on the direct path.
C15_AppendFansOut ==
    Quiet =>
        \A m \in StoredMessages :
            /\ RelayPublished(m)
            /\ \E b \in broadcasts : b.message.id = m.id

\* C15, the relay path alone, with the relay up
C15_AppendIsPublished == \A m \in StoredMessages : RelayPublished(m)

\* "room_" + min(u1,u2) + "_" + max(u1,u2), strings ordered by code unit
SpecRoomName(u1, u2) ==
    IF StrLess(u2, u1) THEN ROOM_PREFIX \o u2 \o UNDERSCORE \o u1
    ELSE ROOM_PREFIX \o u1 \o UNDERSCORE \o u2

\* C16: the room id used on the direct path (ChatWindow), by the message
\* store (and the relay channel built on it) and by the key derivation is
\* "room_" + min(u1,u2) + "_" + max(u1,u2) for every pair.
C16_OneRoomIdentifier ==
    rpc = "done" =>
        /\ rres.window12 = SpecRoomName(ru1, ru2)
        /\ rres.store12 = SpecRoomName(ru1, ru2)
        /\ rres.crypto12 = SpecRoomName(ru1, ru2)

\* C16 without the direct path: the store and the key derivation
C16_StoreAndCipherAgree ==
    rpc = "done" =>
        /\ rres.store12 = SpecRoomName(ru1, ru2)
        /\ rres.crypto12 = SpecRoomName(ru1, ru2)
        /\ rres.store21 = rres.store12
        /\ rres.crypto21 = rres.crypto12

\* C17: addMessage on a roomId that has no room throws, creates no room and
\* appends no message: the store is unchanged.
C17_AppendNeedsRoom ==
    [][(sret'.op = "addMessage" /\ sret'.room \notin DOMAIN chatRooms)
          => sret'.threw /\ storeVars' = storeVars]_vars

\* addMessage threw for a room that does not exist while another room holds
\* messages
C17_Witness ==
    /\ sret.op = "addMessage"
    /\ sret.threw
    /\ sret.room \notin DOMAIN chatRooms
    /\ \E r \in DOMAIN chatRooms : chatRooms[r].messages # <<>>

\* C18: in every step each room keeps its messages in place, unchanged but
\* for isRead, and can only gain messages at the end; no room disappears.
C18_AppendOnly ==
    [][\A r \in DOMAIN chatRooms :
        /\ r \in DOMAIN chatRooms'
        /\ Len(chatRooms'[r].messages) >= Len(chatRooms[r].messages)
        /\ \A i \in 1..Len(chatRooms[r].messages) :
            SameButIsRead(chatRooms'[r].messages[i], chatRooms[r].messages[i])
      ]_vars

\* a message was appended to a room behind a message that had been marked
\* read
C18_Witness ==
    /\ sret.op = "addMessage"
    /\ ~sret.threw
    /\ Len(RoomMessages(sret.room)) >= 2
    /\ RoomMessages(sret.room)[1].isRead
    /\ ~RoomMessages(sret.room)[Len(RoomMessages(sret.room))].isRead

\* C19: every room of the store has exactly two participants, they are
\* distinct, and the room's id is the one computed from them.
C19_TwoDistinctParticipants ==
    \A r \in DOMAIN chatRooms :
        LET p == chatRooms[r].participants IN
        /\ Len(p) = 2
        /\ p[1] # p[2]
        /\ r = storeGetRoomId(p[1], p[2])

\* C19, the part that holds: every room has two participant entries and its
\* id is the one computed from them
C19_IdFromParticipants ==
    \A r \in DOMAIN chatRooms :
        LET p == chatRooms[r].participants IN
        /\ Len(p) = 2
        /\ r = storeGetRoomId(p[1], p[2])
        /\ chatRooms[r].id = r

\* C20: getMessages, markMessagesAsRead and getUnreadCount on a room id for
\* which no room exists return an empty sequence, have no effect and return 0,
\* and no such call changes the set of rooms; a step that adds a room is a
\* getOrCreateRoom for the pair the new room id is computed from.
C20_RoomsMadeOnlyBySend ==
    [][/\ (sret'.op \in {"getMessages", "markMessagesAsRead", "getUnreadCount"}
            => DOMAIN chatRooms' = DOMAIN chatRooms)
       /\ (sret'.op = "getMessages" /\ sret'.room \notin DOMAIN chatRooms
            => sret'.val = <<>> /\ storeVars' = storeVars)
       /\ (sret'.op = "markMessagesAsRead" /\ sret'.room \notin DOMAIN chatRooms
            => storeVars' = storeVars)
       /\ (sret'.op = "getUnreadCount" /\ sret'.room \notin DOMAIN chatRooms
            => sret'.num = 0 /\ storeVars' = storeVars)
       /\ (DOMAIN chatRooms' # DOMAIN chatRooms
            => /\ sret'.op = "getOrCreateRoom"
               /\ DOMAIN chatRooms' =
                    DOMAIN chatRooms \cup {storeGetRoomId(sret'.pair[1], sret'.pair[2])})
      ]_vars

\* markMessagesAsRead was called for a pair without a room while another
\* pair's room holds an unread message
C20_Witness ==
    /\ sret.op = "markMessagesAsRead"
    /\ sret.room \notin DOMAIN chatRooms
    /\ \E r \in DOMAIN chatRooms :
            \E i \in 1..Len(chatRooms[r].messages) : ~chatRooms[r].messages[i].isRead

\* the room events of socket s that bear on room r, by position in its log
RoomEventsOf(s, r) ==
    {i \in 1..Len(roomLog[s]) :
        roomLog[s][i].type = "disconnect" \/ roomLog[s][i].roomId = r}

\* socket s is joined to room r: its last handled event bearing on r is a
\* join-room
JoinedNow(s, r) ==
    /\ RoomEventsOf(s, r) # {}
    /\ LET last == CHOOSE i \in RoomEventsOf(s, r) :
                        \A j \in RoomEventsOf(s, r) : j <= i
       IN  roomLog[s][last].type = "join-room"

\* the server handles an event of the given type of socket c in this step
Handling(c, type) ==
    /\ sockOut[c] # <<>>
    /\ Head(sockOut[c]).type = type
    /\ sockOut'[c] = Tail(sockOut[c])

\* C21: when server.js handles a send-message for room r, new-message with
\* that message is put on the way to every socket joined to r at that
\* moment, the sending socket included when it is joined, and to no socket
\* that never joined r, has left r or has disconnected.
C21_BroadcastToMembers ==
    [][\A c \in Sockets :
        Handling(c, "send-message") =>
            LET e == Head(sockOut[c]) IN
            \A s \in Sockets :
                sockIn'[s] = IF JoinedNow(s, e.roomId)
                             THEN Append(sockIn[s],
                                         Event("new-message", <<>>, NoUser, e.message))
                             ELSE sockIn[s]
      ]_vars

\* a send-message was broadcast to its own sender and another socket while a
\* third socket, which had left that room, was passed over
C21_Witness ==
    \E b \in broadcasts :
        /\ b.from \in b.to
        /\ b.to # {b.from}
        /\ \E s \in Sockets \ b.to :
                \E i \in 1..Len(roomLog[s]) :
                    roomLog[s][i] = RoomEvent("leave-room", b.roomId)

\* C22: on the direct path every client's socket dispatches the new-message
\* events of a room in the order in which the messages were appended to the
\* room (ids are given out in append order).
C22_DirectPathInOrder ==
    \A c \in Clients :
        \A i, j \in 1..Len(heard[c]) : i < j => heard[c][i] <= heard[c][j]

\* C22, the part that holds: the messages one client sends reach every
\* client in the order of their appends
C22_OneSenderInOrder ==
    \A c \in Clients :
        \A i, j \in 1..Len(heard[c]) :
            (/\ i < j
             /\ \E r \in DOMAIN chatRooms :
                    \E a, b \in 1..Len(chatRooms[r].messages) :
                        /\ chatRooms[r].messages[a].id = heard[c][i]
                        /\ chatRooms[r].messages[b].id = heard[c][j]
                        /\ chatRooms[r].messages[a].senderId =
                                chatRooms[r].messages[b].senderId)
            => heard[c][i] <= heard[c][j]

\* C23: handling join(userId) of a socket maps userId to that socket in
\* onlineUsers and puts user-online {online: true} on the way to every open
\* socket; handling the disconnect of a socket that has a userId removes that
\* userId from onlineUsers, whichever socket it maps to, and puts user-online
\* {online: false} on the way to every other open socket.
C23_PresenceFollowsJoinAndDisconnect ==
    [][\A c \in Sockets :
        /\ Handling(c, "join") =>
                LET userId == Head(sockOut[c]).userId IN
                /\ userId \in DOMAIN onlineUsers'
                /\ onlineUsers'[userId] = c
                /\ \A s \in Sockets :
                        sockIn'[s] = IF live[s]
                                     THEN Append(sockIn[s], PresenceEvent(userId, TRUE))
                                     ELSE sockIn[s]
        /\ (Handling(c, "disconnect") /\ socketUserId[c] # NoUser) =>
                /\ socketUserId[c] \notin DOMAIN onlineUsers'
                /\ \A s \in Sockets :
                        sockIn'[s] = IF live[s] /\ s # c
                                     THEN Append(sockIn[s],
                                                 PresenceEvent(socketUserId[c], FALSE))
                                     ELSE sockIn[s]
      ]_vars

\* bob's second session joined and has closed: bob has no entry in
\* onlineUsers although his first session is still open
C23_Witness ==
    /\ Closed(ANON)
    /\ socketUserId[ANON] = BOB
    /\ live["c2"]
    /\ socketUserId["c2"] = BOB
    /\ BOB \notin DOMAIN onlineUsers

\* C24: the step that handles a socket's disconnect takes the socket out of
\* every room and removes its userId from onlineUsers; once that step is
\* done, no step puts an event on the way to that socket.
C24_DisconnectReleases ==
    [][\A c \in Sockets :
        /\ Handling(c, "disconnect") =>
                /\ \A r \in DOMAIN members' : c \notin members'[r]
                /\ socketUserId[c] # NoUser => socketUserId[c] \notin DOMAIN onlineUsers'
                /\ ~live'[c]
        /\ Closed(c) => sockIn'[c] = sockIn[c]
      ]_vars

\* bob's socket has closed, bob is offline, and a message was broadcast to his
\* room afterwards without reaching the closed socket
C24_Witness ==
    /\ Closed("c2")
    /\ BOB \notin DOMAIN onlineUsers
    /\ \E b \in broadcasts : b.roomId = BOB_ROOM /\ "c2" \notin b.to

\* the bulk load of the conversation client c has open is not yet applied
BulkLoadOutstanding(c) ==
    \E q \in http : q.kind = "GET" /\ q.client = c /\ q.other = selected[c]

\* C25: no pushed message is appended to a client's local sequence while the
\* bulk load of the conversation it has open is still outstanding.
C25_BulkLoadBeforeRealTime ==
    [][\A c \in Clients :
        (pending'[c] # pending[c] /\ Len(messages'[c]) > Len(messages[c]))
            => ~BulkLoadOutstanding(c)
      ]_vars

\* C25, read on the socket: a client's join-room for a conversation is not on
\* its way to the server while the bulk load of that conversation is
\* outstanding.
C25_AttachAfterBulkLoad ==
    \A c \in Clients :
        BulkLoadOutstanding(c) =>
            \A i \in 1..Len(sockOut[c]) :
                ~(/\ sockOut[c][i].type = "join-room"
                  /\ sockOut[c][i].roomId = windowGetRoomId(ClientUser(c), selected[c]))

\* nothing is in flight but POST handlers awaiting a trigger that never settles
QuietButHung ==
    /\ \A q \in http : (q.client \notin Clients /\ q.stage = "resp") \/ q.stage = "await"
    /\ \A c \in Sockets : sockOut[c] = <<>>
    /\ \A c \in Clients : sockIn[c] = <<>> /\ pending[c] = {}

\* C26: a relay publish that never completes does not hold back the direct
\* path: once nothing else is in flight, the message of every POST that still
\* awaits its trigger, sent by a ChatWindow whose socket is connected, has
\* been broadcast by server.js.
C26_DirectPathNotHeldByRelay ==
    QuietButHung =>
        \A q \in http :
            (q.stage = "await" /\ q.client \in Clients /\ connected[q.client])
                => \E b \in broadcasts : b.message.id = q.msgs[1].id

\* C26, the half that holds: the relay publish does not wait for the direct
\* path; when a POST is answered with a message, that message was handed to
\* the relay already, before the sender's socket emits anything for it.
C26_RelayNotHeldByDirect ==
    \A q \in http :
        (q.kind = "POST" /\ q.stage = "resp" /\ q.status = 200 /\ q.msgs # <<>>)
            => /\ RelayPublished(q.msgs[1])
               /\ \A b \in broadcasts : b.message.id # q.msgs[1].id

\* a GET response for client c is applied in this step
BulkLoadApplied(c, q) ==
    /\ q \in http /\ q \notin http'
    /\ q.kind = "GET" /\ q.stage = "resp" /\ q.status = 200 /\ q.client = c

\* C27: every message of a local sequence either carries its plaintext or is
\* flagged decryptionFailed and carries none; a bulk load puts every message
\* of the response into the sequence, in order, whether or not it could be
\* decrypted; and the resolution of a pushed message's decryption leaves
\* that message in the sequence and removes nothing from it.
C27_DecryptFailureIsLocal ==
    /\ [](\A c \in Clients : \A i \in 1..Len(messages[c]) :
            messages[c][i].decryptionFailed = (messages[c][i].decryptedContent = <<>>))
    /\ [][\A c \in Clients :
            /\ \A q \in http :
                    BulkLoadApplied(c, q) =>
                        /\ Len(messages'[c]) = Len(q.msgs)
                        /\ \A i \in 1..Len(q.msgs) : messages'[c][i].id = q.msgs[i].id
            /\ \A m \in pending[c] :
                    m \notin pending'[c] =>
                        /\ HasId(messages'[c], m.id)
                        /\ Len(messages'[c]) >= Len(messages[c])
                        /\ \A i \in 1..Len(messages[c]) : messages'[c][i] = messages[c][i]
       ]_vars

\* alice's sequence holds a stored message flagged undecryptable, a pushed
\* message flagged undecryptable and a message shown with its plaintext
C27_Witness ==
    \E i, j, k \in 1..Len(messages["c1"]) :
        /\ messages["c1"][i].decryptionFailed /\ messages["c1"][i].id # 0
        /\ messages["c1"][j].decryptionFailed /\ messages["c1"][j].id = 0
        /\ messages["c1"][k].decryptedContent = HELLO

\* C28: a key-exchange request with a session, a targetUserId and a publicKey
\* makes one trigger call, on channel user-{targetUserId}, named
\* key-exchange-response when isResponse is truthy and key-exchange-request
\* otherwise, with the session's user id as fromUserId (nothing reaches a
\* relay when none is configured); a request without a session or without
\* targetUserId or publicKey publishes nothing; no request changes the
\* message store or anything a client holds
KeyExchangePublishes(req) ==
    req.auth /\ req.other # NoUser /\ req.content # <<>>

NoStopTypingToCome(c) ==
    /\ \A s \in Sockets :
            /\ \A i \in 1..Len(sockOut[s]) : sockOut[s][i].type # "stop-typing"
            /\ \A i \in 1..Len(sockIn[s]) : sockIn[s][i].type # "user-stop-typing"
    /\ \A t \in Clients \ {c} : ~connected[t] /\ ~live[t]

C29_IndicatorExpires ==
    \A c \in Clients :
        (typingUser[c] # NoName /\ NoStopTypingToCome(c)) =>
            shownTicks[c] <= TimeoutTicks


\* C30: the local sequence of a ChatWindow holds only messages exchanged
\* between its user and the user selected in it: checked once everything that
\* was in flight when the conversation was switched has been delivered
C30_OnlySelectedConversation ==
    Quiet =>
        \A c \in Clients : \A i \in 1..Len(messages[c]) :
            selected[c] # NoUser =>
                {messages[c][i].senderId, messages[c][i].receiverId}
                    = {ClientUser(c), selected[c]}


\* C31: while a ChatWindow keeps the one conversation it has opened, a message
\* id that is in its local sequence stays in it: a message pushed or sent
\* while the bulk load is in flight is still there after the bulk load is
\* applied
C31_IdsNeverRemoved ==
    [][\A c \in Clients :
            (selected[c] # NoUser /\ selected'[c] = selected[c] /\ nSelects <= 1) =>
                \A i \in 1..Len(messages[c]) : HasId(messages'[c], messages[c][i].id)
      ]_vars


\* C32: every message of a local sequence has the id, sender, receiver and
\* encryptedContent of a message held by the MessageStore
C32_LocalMessagesAreStored ==
    \A c \in Clients : \A i \in 1..Len(messages[c]) :
        \E m \in StoredMessages :
            /\ m.id = messages[c][i].id
            /\ m.senderId = messages[c][i].senderId
            /\ m.receiverId = messages[c][i].receiverId
            /\ m.encryptedContent = messages[c][i].encryptedContent


\* C33: every entry of onlineUsers maps a user id to an open socket whose
\* userId is that id (so no user is left online once the sessions that joined
\* under its id are closed)
C33_RegistryIsLive ==
    \A u \in DOMAIN onlineUsers :
        /\ live[onlineUsers[u]]
        /\ socketUserId[onlineUsers[u]] = u

\* C33, the second half alone: once a socket is closed no entry maps to it
C33_NoEntryForClosedSocket ==
    \A u \in DOMAIN onlineUsers : ~Closed(onlineUsers[u]) \/ live[onlineUsers[u]]


\* C34: a POST that is answered with a failure status has not changed the
\* MessageStore
C34_FailedSendStoresNothing ==
    [][\A q \in http' \ http :
            (q.kind = "POST" /\ q.stage = "resp" /\ q.status # 200) =>
                chatRooms' = chatRooms
      ]_vars


\* C35: a client whose socket is connected and that has a conversation open
\* is a member of that conversation's room at the server, once everything it
\* emitted has been handled
C35_OpenRoomIsJoined ==
    Quiet =>
        \A c \in Clients :
            (connected[c] /\ live[c] /\ selected[c] # NoUser) =>
                c \in MembersOf(windowGetRoomId(ClientUser(c), selected[c]))


\* C36: once no timeout of a client is pending, every typing event it emitted
\* for a room has been followed by a stop-typing event it emitted for that
\* room
C36_TypingIsStopped ==
    \A c \in Clients :
        timers[c] = {} =>
            \A i \in 1..Len(emitted[c]) :
                emitted[c][i].type = "typing" =>
                    \E j \in (i + 1)..Len(emitted[c]) :
                        /\ emitted[c][j].type = "stop-typing"
                        /\ emitted[c][j].roomId = emitted[c][i].roomId


\* C38: the room id computed for a pair of user ids is the room id of no
\* other unordered pair, in the key derivation's getRoomId and in the message
\* store's
C38_RoomIdInjective ==
    rpc = "done" =>
        \A c \in IdStrings, d \in IdStrings :
            (rres.crypto12 = getRoomId(c, d) \/ rres.store12 = storeGetRoomId(c, d))
                => {c, d} = {ru1, ru2}

\* C38 for ids without '_'
C38_InjectiveWithoutUnderscore ==
    (/\ rpc = "done"
     /\ \A i \in 1..Len(ru1) : <<ru1[i]>> # UNDERSCORE
     /\ \A i \in 1..Len(ru2) : <<ru2[i]>> # UNDERSCORE) =>
        \A c \in IdStrings, d \in IdStrings :
            (/\ \A i \in 1..Len(c) : <<c[i]>> # UNDERSCORE
             /\ \A i \in 1..Len(d) : <<d[i]>> # UNDERSCORE
             /\ rres.store12 = storeGetRoomId(c, d))
                => {c, d} = {ru1, ru2}


\* C37: every message stored by the send route has the session's user as its
\* sender and, with its receiver, makes up the participants of its room; and
\* a GET that returned messages returned those of a room its caller is a
\* participant of
C37_RoutesRespectParticipants ==
    /\ \A q \in http :
            (q.kind = "POST" /\ q.stage = "resp" /\ q.status = 200) =>
                q.msgs[1].senderId = ClientUser(q.client)
    /\ \A r \in DOMAIN chatRooms : \A i \in 1..Len(chatRooms[r].messages) :
            {chatRooms[r].messages[i].senderId, chatRooms[r].messages[i].receiverId}
                = PairSet(chatRooms[r].participants)
    /\ \A q \in http :
            (q.kind = "GET" /\ q.stage = "resp" /\ q.status = 200 /\ q.msgs # <<>>) =>
                ClientUser(q.client) \in PairSet(chatRooms[q.room].participants)

\* C37, the sender alone
C37_SenderIsCaller ==
    \A q \in http :
        (q.kind = "POST" /\ q.stage = "resp" /\ q.status = 200) =>
            q.msgs[1].senderId = ClientUser(q.client)


\* C39: no two user records share an email
C39_EmailsUnique ==
    \A i \in 1..Len(users) : \A j \in 1..Len(users) :
        users[i] = users[j] => i = j

\* C39 for two createUser calls of one new email, the demo users aside
C39_NewEmailUnique ==
    Cardinality({i \in 1..Len(users) : users[i] = NEW_EMAIL}) <= 1

====
